---- MODULE Spec2Model ----
(***************************************************************************)
(* Model of the ERC-721 validator (src/src/validator.ts, newer variant:    *)
(* the class whose constructor takes web3 and millionCoinAddress).         *)
(*                                                                         *)
(* A call of basic, token or transfer builds a Promise whose executor      *)
(* checks the arguments, asks the web3 collaborator for a Contract, a      *)
(* deployment object and a gas estimate, and settles the Promise from the  *)
(* estimateGas callback or from the catch block.  The collaborator is      *)
(* external: its replies (callback arguments, rejection of the awaited     *)
(* promise) are nondeterministic choices.                                  *)
(***************************************************************************)
EXTENDS Integers, Sequences, FiniteSets, TLC

VARIABLES web3, millionCoinAddress, calls, evm

vars == <<web3, millionCoinAddress, calls, evm>>

(***************************************************************************)
(* Bounds and input universes.                                             *)
(***************************************************************************)
\* largest gas number the collaborator reports
MaxGas == 1

\* case ids the caller passes: below every range, inside every range,
\* inside the Transfer range only, above every range
Tests == {0, 3, 11, 15}

Clients == {"web3A", "web3B"}

(***************************************************************************)
(* JavaScript values.                                                      *)
(***************************************************************************)
Undefined == [type |-> "undefined"]
Null == [type |-> "null"]
Num(n) == [type |-> "number", n |-> n]
Str(s) == [type |-> "string", s |-> s]
\* an Error object; its message is a sequence of words
Err(words) == [type |-> "Error", message |-> words]
\* the object literal { result, gas }
ResultObject(result, gas) == [type |-> "object", result |-> result, gas |-> gas]

\* a test that first converts its operand to a number
Falsy_numeric(v) ==
  \/ v.type = "undefined"
  \/ v.type = "null"
  \/ (v.type = "number" /\ v.n = 0)
  \/ (v.type = "string" /\ v.s \in {"", "0"})

\* the operand test of `!v`
Falsy(v) ==
  \/ v.type = "undefined"
  \/ v.type = "null"
  \/ (v.type = "number" /\ v.n = 0)
  \/ (v.type = "string" /\ v.s = "")

\* String(v), as a sequence of words
String(v) ==
  CASE v.type = "Error" -> <<"Error:">> \o v.message
    [] v.type = "string" -> <<v.s>>
    [] OTHER -> <<v.type>>

\* s.includes(sub): sub occurs in s as a contiguous run
Includes(s, sub) ==
  \E i \in 1..(Len(s) - Len(sub) + 1) : SubSeq(s, i, i + Len(sub) - 1) = sub

AlwaysFailingTransaction == <<"always", "failing", "transaction">>
ExecutionReverted == <<"execution", "reverted">>

\* values the caller passes
Addresses == {Str("0xbe0e"), Str("0xa013")}
ContractArgs == {Undefined, Str("0xf176")}
TokenIdArgs == {Undefined, Num(0), Num(1), Str(""), Str("0")}
GiverArgs == {Undefined, Str("0xa013")}

\* what the collaborator hands to the estimateGas callback
ErrorReplies ==
  { Err(<<"Returned", "error:", "gas", "required", "exceeds", "allowance",
          "or", "always", "failing", "transaction">>),
    Err(<<"Returned", "error:", "execution", "reverted">>),
    Err(<<"connection", "timeout">>),
    Err(<<"execution", "was", "reverted">>) }
ErrReplies == {Null} \cup ErrorReplies
GasReplies == {Undefined} \cup {Num(g) : g \in 0..MaxGas}

(***************************************************************************)
(* Promise: the first resolve or reject settles it, later ones are ignored.*)
(***************************************************************************)
Pending == [state |-> "pending"]

\* resolve that overwrites a settled promise
resolve_last(p, v) == [state |-> "resolved", value |-> v]

resolve(p, v) ==
  IF p.state = "pending" THEN [state |-> "resolved", value |-> v] ELSE p

reject(p, v) ==
  IF p.state = "pending" THEN [state |-> "rejected", value |-> v] ELSE p

MsgContract == "You must provide contract address as input"
MsgTokenId == "You must provide tokenId as input"
MsgGiver == "You must provide giver address as input"

(***************************************************************************)
(* Argument checks: each `if (!x) { reject(...) }` rejects and falls       *)
(* through to the next statement.                                          *)
(***************************************************************************)
basicCheck(contract) ==
  IF Falsy(contract) THEN reject(Pending, Str(MsgContract)) ELSE Pending

tokenCheck(contract, tokenId) ==
  LET p1 == IF Falsy(contract) THEN reject(Pending, Str(MsgContract)) ELSE Pending
  IN  IF Falsy(tokenId) THEN reject(p1, Str(MsgTokenId)) ELSE p1

\* transferCheck testing giver first, then tokenId, then contract
transferCheck_giverFirst(contract, tokenId, giver) ==
  LET p1 == IF Falsy(giver) THEN reject(Pending, Str(MsgGiver)) ELSE Pending
      p2 == IF Falsy(tokenId) THEN reject(p1, Str(MsgTokenId)) ELSE p1
  IN  IF Falsy(contract) THEN reject(p2, Str(MsgContract)) ELSE p2

transferCheck(contract, tokenId, giver) ==
  LET p1 == IF Falsy(contract) THEN reject(Pending, Str(MsgContract)) ELSE Pending
      p2 == IF Falsy(tokenId) THEN reject(p1, Str(MsgTokenId)) ELSE p1
  IN  IF Falsy(giver) THEN reject(p2, Str(MsgGiver)) ELSE p2

(***************************************************************************)
(* What the executor invokes on the collaborator, in order: the Contract   *)
(* constructor, deploy on the contract, estimateGas on the deployment.     *)
(***************************************************************************)
\* basicRequests asking for the estimate a second time
basicRequests_retry(client, test, contract) ==
  << [op |-> "Contract", on |-> client, abi |-> "ABI_BASIC"],
     [op |-> "deploy", data |-> "DATA_BASIC", arguments |-> <<Num(test), contract>>],
     [op |-> "estimateGas", options |-> Undefined],
     [op |-> "estimateGas", options |-> Undefined] >>

basicRequests(client, test, contract) ==
  << [op |-> "Contract", on |-> client, abi |-> "ABI_BASIC"],
     [op |-> "deploy", data |-> "DATA_BASIC", arguments |-> <<Num(test), contract>>],
     [op |-> "estimateGas", options |-> Undefined] >>

\* tokenRequests submitting the deployment instead of estimating it
tokenRequests_send(client, test, contract, tokenId) ==
  << [op |-> "Contract", on |-> client, abi |-> "ABI_TOKEN"],
     [op |-> "deploy", data |-> "DATA_TOKEN",
      arguments |-> <<Num(test), contract, tokenId>>],
     [op |-> "send", options |-> Undefined] >>

tokenRequests(client, test, contract, tokenId) ==
  << [op |-> "Contract", on |-> client, abi |-> "ABI_TOKEN"],
     [op |-> "deploy", data |-> "DATA_TOKEN",
      arguments |-> <<Num(test), contract, tokenId>>],
     [op |-> "estimateGas", options |-> Undefined] >>

\* transferRequests attaching a tenth of the value
transferRequests_lessValue(client, from, test, contract, tokenId, giver) ==
  << [op |-> "Contract", on |-> client, abi |-> "ABI_TRANSFER"],
     [op |-> "deploy", data |-> "DATA_TRANSFER",
      arguments |-> <<Num(test), contract, tokenId, giver>>],
     [op |-> "estimateGas",
      options |-> [from |-> from, value |-> "100000000000000000000000"]] >>

\* transferRequests with giver and tokenId in each other's place
transferRequests_swapped(client, from, test, contract, tokenId, giver) ==
  << [op |-> "Contract", on |-> client, abi |-> "ABI_TRANSFER"],
     [op |-> "deploy", data |-> "DATA_TRANSFER",
      arguments |-> <<Num(test), contract, giver, tokenId>>],
     [op |-> "estimateGas",
      options |-> [from |-> from, value |-> "1000000000000000000000000"]] >>

\* transferRequests sending from the address the older variant hardcodes
transferRequests_hardcodedFrom(client, from, test, contract, tokenId, giver) ==
  << [op |-> "Contract", on |-> client, abi |-> "ABI_TRANSFER"],
     [op |-> "deploy", data |-> "DATA_TRANSFER",
      arguments |-> <<Num(test), contract, tokenId, giver>>],
     [op |-> "estimateGas",
      options |-> [from |-> Str("0xbe0e"), value |-> "1000000000000000000000000"]] >>

transferRequests(client, from, test, contract, tokenId, giver) ==
  << [op |-> "Contract", on |-> client, abi |-> "ABI_TRANSFER"],
     [op |-> "deploy", data |-> "DATA_TRANSFER",
      arguments |-> <<Num(test), contract, tokenId, giver>>],
     [op |-> "estimateGas",
      options |-> [from |-> from, value |-> "1000000000000000000000000"]] >>

(***************************************************************************)
(* The estimateGas callbacks (err, gas) => {...}: reject on an error that  *)
(* carries no known signature, then resolve in every case.                 *)
(***************************************************************************)
\* basicCallback reporting success only while no other call is in flight
basicCallback_whileOther(p, err, gas) ==
  LET result == IF Falsy(err) /\ Len(calls) = 1 THEN TRUE ELSE FALSE
      p1 == IF Falsy(err) THEN p
            ELSE IF \/ Includes(String(err), AlwaysFailingTransaction)
                    \/ Includes(String(err), ExecutionReverted)
                 THEN p
                 ELSE reject(p, err)
  IN  resolve(p1, ResultObject(result, gas))

basicCallback(p, err, gas) ==
  LET result == IF Falsy(err) THEN TRUE ELSE FALSE
      p1 == IF Falsy(err) THEN p
            ELSE IF \/ Includes(String(err), AlwaysFailingTransaction)
                    \/ Includes(String(err), ExecutionReverted)
                 THEN p
                 ELSE reject(p, err)
  IN  resolve(p1, ResultObject(result, gas))

\* tokenCallback knowing only the 'always failing transaction' signature
tokenCallback_oneSignature(p, err, gas) ==
  LET result == IF Falsy(err) THEN TRUE ELSE FALSE
      p1 == IF Falsy(err) THEN p
            ELSE IF Includes(String(err), AlwaysFailingTransaction)
                 THEN p
                 ELSE reject(p, err)
  IN  resolve(p1, ResultObject(result, gas))

tokenCallback(p, err, gas) ==
  LET result == IF Falsy(err) THEN TRUE ELSE FALSE
      p1 == IF Falsy(err) THEN p
            ELSE IF \/ Includes(String(err), AlwaysFailingTransaction)
                    \/ Includes(String(err), ExecutionReverted)
                 THEN p
                 ELSE reject(p, err)
  IN  resolve(p1, ResultObject(result, gas))

\* transferCallback whose result is shared with the other calls' callbacks
transferCallback_sharedResult(p, err, gas) ==
  LET result == IF \/ Falsy(err)
                   \/ \E k \in DOMAIN calls :
                        calls[k].cb.called /\ Falsy(calls[k].cb.err)
                THEN TRUE ELSE FALSE
      p1 == IF Falsy(err) THEN p
            ELSE IF \/ Includes(String(err), AlwaysFailingTransaction)
                    \/ Includes(String(err), ExecutionReverted)
                 THEN p
                 ELSE reject(p, err)
  IN  resolve(p1, ResultObject(result, gas))

transferCallback(p, err, gas) ==
  LET result == IF Falsy(err) THEN TRUE ELSE FALSE
      p1 == IF Falsy(err) THEN p
            ELSE IF \/ Includes(String(err), AlwaysFailingTransaction)
                    \/ Includes(String(err), ExecutionReverted)
                 THEN p
                 ELSE reject(p, err)
  IN  resolve(p1, ResultObject(result, gas))

\* catch (e) { reject(e); }
basicCatch(p, e) == reject(p, e)
tokenCatch(p, e) == reject(p, e)
transferCatch(p, e) == reject(p, e)

(***************************************************************************)
(* The older ERC721Validator, constructed from web3 alone: the same        *)
(* argument checks, the sender of a transfer simulation written in the     *)
(* code, and callbacks that resolve with true, false or the error.         *)
(***************************************************************************)
True == [type |-> "boolean", b |-> TRUE]
False == [type |-> "boolean", b |-> FALSE]

older_basicCheck(contract) ==
  IF Falsy(contract) THEN reject(Pending, Str(MsgContract)) ELSE Pending

older_tokenCheck(contract, tokenId) ==
  LET p1 == IF Falsy(contract) THEN reject(Pending, Str(MsgContract)) ELSE Pending
  IN  IF Falsy(tokenId) THEN reject(p1, Str(MsgTokenId)) ELSE p1

older_transferCheck(contract, tokenId, giver) ==
  LET p1 == IF Falsy(contract) THEN reject(Pending, Str(MsgContract)) ELSE Pending
      p2 == IF Falsy(tokenId) THEN reject(p1, Str(MsgTokenId)) ELSE p1
  IN  IF Falsy(giver) THEN reject(p2, Str(MsgGiver)) ELSE p2

older_basicRequests(client, test, contract) ==
  << [op |-> "Contract", on |-> client, abi |-> "ABI_BASIC"],
     [op |-> "deploy", data |-> "DATA_BASIC", arguments |-> <<Num(test), contract>>],
     [op |-> "estimateGas", options |-> Undefined] >>

older_tokenRequests(client, test, contract, tokenId) ==
  << [op |-> "Contract", on |-> client, abi |-> "ABI_TOKEN"],
     [op |-> "deploy", data |-> "DATA_TOKEN",
      arguments |-> <<Num(test), contract, tokenId>>],
     [op |-> "estimateGas", options |-> Undefined] >>

older_transferRequests(client, test, contract, tokenId, giver) ==
  << [op |-> "Contract", on |-> client, abi |-> "ABI_TRANSFER"],
     [op |-> "deploy", data |-> "DATA_TRANSFER",
      arguments |-> <<Num(test), contract, tokenId, giver>>],
     [op |-> "estimateGas",
      options |-> [from |-> Str("0xbe0e"),
                   value |-> "1000000000000000000000000"]] >>

older_basicCallback(p, err, gas) ==
  IF Falsy(err) THEN resolve(p, True)
  ELSE IF Includes(String(err), AlwaysFailingTransaction) THEN resolve(p, False)
  ELSE resolve(p, err)

older_tokenCallback(p, err, gas) ==
  IF Falsy(err) THEN resolve(p, True)
  ELSE IF Includes(String(err), AlwaysFailingTransaction) THEN resolve(p, False)
  ELSE resolve(p, err)

older_transferCallback(p, err, gas) ==
  IF Falsy(err) THEN resolve(p, True)
  ELSE IF Includes(String(err), AlwaysFailingTransaction) THEN resolve(p, False)
  ELSE resolve(p, err)

older_basicCatch(p, e) == reject(p, e)
older_tokenCatch(p, e) == reject(p, e)
older_transferCatch(p, e) == reject(p, e)

(***************************************************************************)
(* State.  calls holds the calls whose outcome the caller has not yet      *)
(* taken; a call records its arguments, its Promise, the collaborator      *)
(* invocations it made, what its callback received, and whether its        *)
(* executor still awaits the estimateGas promise.                          *)
(***************************************************************************)
NoCallback == [called |-> FALSE]

\* how the awaited estimateGas promise ended: not yet, fulfilled, rejected
NotAwaited == [kind |-> "pending"]

\* no simulated deployment is held by the node
NoSimulation == [status |-> "idle"]

NewCall(method, params, promise, log) ==
  [method |-> method, params |-> params, promise |-> promise, log |-> log,
   cb |-> NoCallback, awaited |-> NotAwaited, pc |-> "awaiting"]

\* constructor(web3, millionCoinAddress): defineWeb3(web3), then the field
Init ==
  /\ web3 \in Clients
  /\ millionCoinAddress \in Addresses
  /\ calls = <<>>
  /\ evm = NoSimulation

\* the synchronous part of basic(test, contract), up to the await
basic(test, contract) ==
  /\ calls' = Append(calls,
       NewCall("basic", [test |-> test, contract |-> contract],
               basicCheck(contract),
               basicRequests(web3, test, contract)))
  /\ UNCHANGED <<web3, millionCoinAddress, evm>>

\* the synchronous part of token(test, contract, tokenId)
token(test, contract, tokenId) ==
  /\ calls' = Append(calls,
       NewCall("token",
               [test |-> test, contract |-> contract, tokenId |-> tokenId],
               tokenCheck(contract, tokenId),
               tokenRequests(web3, test, contract, tokenId)))
  /\ UNCHANGED <<web3, millionCoinAddress, evm>>

\* the synchronous part of transfer(test, contract, tokenId, giver)
\* transfer that keeps the giver as the sender of later simulations
transfer_keepsGiver(test, contract, tokenId, giver) ==
  /\ calls' = Append(calls,
       NewCall("transfer",
               [test |-> test, contract |-> contract, tokenId |-> tokenId,
                giver |-> giver],
               transferCheck(contract, tokenId, giver),
               transferRequests(web3, millionCoinAddress, test, contract,
                                tokenId, giver)))
  /\ millionCoinAddress' = giver
  /\ UNCHANGED <<web3, evm>>

transfer(test, contract, tokenId, giver) ==
  /\ calls' = Append(calls,
       NewCall("transfer",
               [test |-> test, contract |-> contract, tokenId |-> tokenId,
                giver |-> giver],
               transferCheck(contract, tokenId, giver),
               transferRequests(web3, millionCoinAddress, test, contract,
                                tokenId, giver)))
  /\ UNCHANGED <<web3, millionCoinAddress, evm>>

\* the synchronous parts of the older basic, token and transfer
older_basic(test, contract) ==
  /\ calls' = Append(calls,
       NewCall("older.basic", [test |-> test, contract |-> contract],
               older_basicCheck(contract),
               older_basicRequests(web3, test, contract)))
  /\ UNCHANGED <<web3, millionCoinAddress, evm>>

older_token(test, contract, tokenId) ==
  /\ calls' = Append(calls,
       NewCall("older.token",
               [test |-> test, contract |-> contract, tokenId |-> tokenId],
               older_tokenCheck(contract, tokenId),
               older_tokenRequests(web3, test, contract, tokenId)))
  /\ UNCHANGED <<web3, millionCoinAddress, evm>>

older_transfer(test, contract, tokenId, giver) ==
  /\ calls' = Append(calls,
       NewCall("older.transfer",
               [test |-> test, contract |-> contract, tokenId |-> tokenId,
                giver |-> giver],
               older_transferCheck(contract, tokenId, giver),
               older_transferRequests(web3, test, contract, tokenId, giver)))
  /\ UNCHANGED <<web3, millionCoinAddress, evm>>

\* the collaborator invokes the callback of call i with (err, gas)
estimateGasCallback(i, err, gas) ==
  /\ calls[i].pc = "awaiting"
  /\ ~calls[i].cb.called
  /\ calls' = [calls EXCEPT
       ![i].cb = [called |-> TRUE, err |-> err, gas |-> gas],
       ![i].promise =
         CASE calls[i].method = "basic" -> basicCallback(@, err, gas)
           [] calls[i].method = "token" -> tokenCallback(@, err, gas)
           [] calls[i].method = "transfer" -> transferCallback(@, err, gas)
           [] calls[i].method = "older.basic" -> older_basicCallback(@, err, gas)
           [] calls[i].method = "older.token" -> older_tokenCallback(@, err, gas)
           [] calls[i].method = "older.transfer" ->
                older_transferCallback(@, err, gas)]
  /\ UNCHANGED <<web3, millionCoinAddress, evm>>

\* the awaited estimateGas promise is fulfilled: the executor ends
AwaitFulfilled(i) ==
  /\ calls[i].pc = "awaiting"
  /\ calls[i].cb.called
  /\ calls' = [calls EXCEPT ![i].pc = "done",
                            ![i].awaited = [kind |-> "fulfilled"]]
  /\ UNCHANGED <<web3, millionCoinAddress, evm>>

\* estimateGas throws or its promise is rejected with e: the catch block runs
AwaitRejected(i, e) ==
  /\ calls[i].pc = "awaiting"
  /\ calls' = [calls EXCEPT
       ![i].pc = "done",
       ![i].awaited = [kind |-> "rejected", e |-> e],
       ![i].promise =
         CASE calls[i].method = "basic" -> basicCatch(@, e)
           [] calls[i].method = "token" -> tokenCatch(@, e)
           [] calls[i].method = "transfer" -> transferCatch(@, e)
           [] calls[i].method = "older.basic" -> older_basicCatch(@, e)
           [] calls[i].method = "older.token" -> older_tokenCatch(@, e)
           [] calls[i].method = "older.transfer" -> older_transferCatch(@, e)]
  /\ UNCHANGED <<web3, millionCoinAddress, evm>>

\* the caller's `await validator.x(...)` takes the outcome of a finished call
Return(i) ==
  /\ calls[i].pc = "done"
  /\ calls[i].promise.state # "pending"
  /\ calls' = SubSeq(calls, 1, i - 1) \o SubSeq(calls, i + 1, Len(calls))
  /\ evm' = NoSimulation
  /\ UNCHANGED <<web3, millionCoinAddress>>

\* a caller that awaits each call before it issues the next one
Next ==
  \/ \E test \in Tests, contract \in ContractArgs :
       calls = <<>> /\ basic(test, contract)
  \/ \E test \in Tests, contract \in ContractArgs, tokenId \in TokenIdArgs :
       calls = <<>> /\ token(test, contract, tokenId)
  \/ \E test \in Tests, contract \in ContractArgs, tokenId \in TokenIdArgs,
        giver \in GiverArgs :
       calls = <<>> /\ transfer(test, contract, tokenId, giver)
  \/ \E i \in DOMAIN calls, err \in ErrReplies, gas \in GasReplies :
       estimateGasCallback(i, err, gas)
  \/ \E i \in DOMAIN calls : AwaitFulfilled(i)
  \/ \E i \in DOMAIN calls, e \in ErrorReplies : AwaitRejected(i, e)
  \/ \E i \in DOMAIN calls : Return(i)

Spec == Init /\ [][Next]_vars

\* the collaborator answers call i: it invokes the callback, or estimateGas
\* throws or its promise is rejected
CollaboratorAnswers(i) ==
  /\ i \in DOMAIN calls
  /\ \/ \E err \in ErrReplies, gas \in GasReplies : estimateGasCallback(i, err, gas)
     \/ \E e \in ErrorReplies : AwaitRejected(i, e)

\* the sequential caller with a collaborator that eventually answers
SpecLive == Init /\ [][Next]_vars /\ WF_vars(CollaboratorAnswers(1))

\* the older class: constructor(web3) defines web3 and no other field
InitOlder ==
  /\ web3 \in Clients
  /\ millionCoinAddress = Undefined
  /\ calls = <<>>
  /\ evm = NoSimulation

NextOlder ==
  \/ \E test \in Tests, contract \in ContractArgs :
       calls = <<>> /\ older_basic(test, contract)
  \/ \E test \in Tests, contract \in ContractArgs, tokenId \in TokenIdArgs :
       calls = <<>> /\ older_token(test, contract, tokenId)
  \/ \E test \in Tests, contract \in ContractArgs, tokenId \in TokenIdArgs,
        giver \in GiverArgs :
       calls = <<>> /\ older_transfer(test, contract, tokenId, giver)
  \/ \E i \in DOMAIN calls, err \in ErrReplies, gas \in GasReplies :
       estimateGasCallback(i, err, gas)
  \/ \E i \in DOMAIN calls : AwaitFulfilled(i)
  \/ \E i \in DOMAIN calls, e \in ErrorReplies : AwaitRejected(i, e)
  \/ \E i \in DOMAIN calls : Return(i)

SpecOlder == InitOlder /\ [][NextOlder]_vars

(***************************************************************************)
(* A caller that issues calls without awaiting the previous ones: up to    *)
(* MaxConcurrent calls are in flight on the one instance and their         *)
(* callbacks and catch blocks interleave freely.  The collaborator behaves *)
(* as web3 does: the awaited promise is fulfilled after a callback without *)
(* error and rejected with the callback's error after one with an error.   *)
(***************************************************************************)
MaxConcurrent == 2

ConcErrReplies ==
  { err \in ErrReplies : Falsy(err) \/ ~Includes(String(err), <<"was">>) }
ConcGasReplies == {Undefined, Num(MaxGas)}

InitConc ==
  /\ web3 = "web3A"
  /\ millionCoinAddress = Str("0xbe0e")
  /\ calls = <<>>
  /\ evm = NoSimulation

NextConc ==
  \/ \E contract \in ContractArgs :
       Len(calls) < MaxConcurrent /\ basic(3, contract)
  \/ Len(calls) < MaxConcurrent /\ token(3, Str("0xf176"), Num(1))
  \/ Len(calls) < MaxConcurrent
       /\ transfer(3, Str("0xf176"), Num(1), Str("0xa013"))
  \/ \E i \in DOMAIN calls, err \in ConcErrReplies, gas \in ConcGasReplies :
       estimateGasCallback(i, err, gas)
  \/ \E i \in DOMAIN calls :
       calls[i].cb.called /\ Falsy(calls[i].cb.err) /\ AwaitFulfilled(i)
  \/ \E i \in DOMAIN calls, e \in ConcErrReplies \ {Null} :
       /\ calls[i].cb.called => (~Falsy(calls[i].cb.err) /\ e = calls[i].cb.err)
       /\ AwaitRejected(i, e)
  \/ \E i \in DOMAIN calls : Return(i)

SpecConc == InitConc /\ [][NextConc]_vars

(***************************************************************************)
(* The probe contracts of src/src/contracts/validator.sol.  A deployment   *)
(* runs the probe's constructor: a list of steps, each an external call, a *)
(* read of the chain, a contract creation or an assertion.  The target is  *)
(* an arbitrary contract: each call on it either reverts or returns any    *)
(* value of the declared type.  A revert anywhere reverts the deployment.  *)
(***************************************************************************)
\* the largest uint256, scaled down
MaxUint == 2

ZeroAddress == "0x0"
ProbeAddress == "this"
OwnerAddress == "0xowner"
stubAddress == "0x85A9"

ERC165ID == "0x01ffc9a7"
ERC721ID == "0x80ac58cd"
ERC721MetadataID == "0x5b5e139f"
ERC721EnumerableID == "0x780e9d63"

\* keccak256(''), the code hash of an account without code
accountHash == "0xc5d2"

\* amounts of wei are decimal digit sequences, most significant digit first
Zeros(n) == [k \in 1..n |-> 0]

RECURSIVE DigitsOf(_)
DigitsOf(n) == IF n < 10 THEN <<n>> ELSE Append(DigitsOf(n \div 10), n % 10)

\* `n ether`: n * 10^18 wei
ether(n) == IF n = 0 THEN <<0>> ELSE DigitsOf(n) \o Zeros(18)

\* a >= b on amounts of wei
GeqWei(a, b) ==
  \/ Len(a) > Len(b)
  \/ /\ Len(a) = Len(b)
     /\ \/ a = b
        \/ \E k \in 1..Len(a) : a[k] > b[k] /\ \A m \in 1..(k - 1) : a[m] = b[m]

\* the amount a decimal string of the program denotes
DigitOf(ch) ==
  CASE ch = "0" -> 0 [] ch = "1" -> 1 [] ch = "2" -> 2 [] ch = "3" -> 3
    [] ch = "4" -> 4 [] ch = "5" -> 5 [] ch = "6" -> 6 [] ch = "7" -> 7
    [] ch = "8" -> 8 [] ch = "9" -> 9

ParseWei(str) == [k \in 1..Len(str) |-> DigitOf(SubSeq(str, k, k))]

\* AddressUtils.isContract applied to the code hash read by extcodehash
isContract_or(codehash) == codehash # "0x0" \/ codehash # accountHash

isContract(codehash) == codehash # "0x0" /\ codehash # accountHash

\* an external call made in function `in`
Call(in, from, to, fn, args, ret, check, store) ==
  [kind |-> "call", in |-> in, from |-> from, to |-> to, fn |-> fn,
   args |-> args, ret |-> ret, check |-> check, store |-> store]

\* a read of the chain state about the target
Read(in, fn, ret, check) ==
  [kind |-> "read", in |-> in, from |-> "probe", to |-> "chain", fn |-> fn,
   args |-> <<"target">>, ret |-> ret, check |-> check, store |-> "none"]

\* `new C()`
New(in, contract) ==
  [kind |-> "new", in |-> in, from |-> "probe", to |-> "chain", fn |-> "new",
   args |-> <<contract>>, ret |-> "address", check |-> "none", store |-> "stub"]

\* assert(false)
AssertFalse(in) ==
  [kind |-> "assert(false)", in |-> in, from |-> "probe", to |-> "probe",
   fn |-> "assert", args |-> <<"false">>, ret |-> "void", check |-> "none",
   store |-> "none"]

\* a call that sends value along
CallValue(in, from, to, fn, args, value) ==
  [kind |-> "callvalue", in |-> in, from |-> from, to |-> to, fn |-> fn,
   args |-> args, ret |-> "void", check |-> "none", store |-> "msgValue",
   value |-> value]

\* require(condition) on values already held
Require(in, from, check) ==
  [kind |-> "require", in |-> in, from |-> from, to |-> from, fn |-> "require",
   args |-> <<check>>, ret |-> "void", check |-> check, store |-> "none"]

(***************************************************************************)
(* BasicValidator                                                          *)
(***************************************************************************)
sanityCheck ==
  << Read("sanityCheck", "balance", "uint", "geq0"),
     Read("sanityCheck", "extcodehash", "hash", "isContract") >>

checkERC165Interface ==
  << Call("checkERC165Interface", "probe", "target", "supportsInterface",
          <<ERC165ID>>, "bool", "assert", "none") >>

\* checkERC721Interface asking for the enumerable extension instead
checkERC721Interface_wrongId ==
  << Call("checkERC721Interface", "probe", "target", "supportsInterface",
          <<ERC721EnumerableID>>, "bool", "assert", "none") >>

checkERC721Interface ==
  << Call("checkERC721Interface", "probe", "target", "supportsInterface",
          <<ERC721ID>>, "bool", "assert", "none") >>

checkERC721MetadataInterface ==
  << Call("checkERC721MetadataInterface", "probe", "target", "supportsInterface",
          <<ERC721MetadataID>>, "bool", "assert", "none") >>

checkERC721EnumerableInterface ==
  << Call("checkERC721EnumerableInterface", "probe", "target", "supportsInterface",
          <<ERC721EnumerableID>>, "bool", "assert", "none") >>

checkBalanceOfZeroAddress ==
  << Call("checkBalanceOfZeroAddress", "probe", "target", "balanceOf",
          <<"zero">>, "uint", "none", "none") >>

checkMetadataName ==
  << Call("checkMetadataName", "probe", "target", "name", <<>>, "string",
          "none", "none") >>

checkMetadataSymbol ==
  << Call("checkMetadataSymbol", "probe", "target", "symbol", <<>>, "string",
          "none", "none") >>

checkTotalSupply ==
  << Call("checkTotalSupply", "probe", "target", "totalSupply", <<>>, "uint",
          "gt0", "none") >>

checkZeroTokenByIndex ==
  << Call("checkZeroTokenByIndex", "probe", "target", "tokenByIndex", <<"0">>,
          "uint", "none", "none") >>

BasicValidator(_caseId) ==
  IF _caseId = 1 THEN sanityCheck
  ELSE IF _caseId = 2 THEN checkERC165Interface
  ELSE IF _caseId = 3 THEN checkERC721Interface
  ELSE IF _caseId = 4 THEN checkERC721MetadataInterface
  ELSE IF _caseId = 5 THEN checkERC721EnumerableInterface
  ELSE IF _caseId = 6 THEN checkBalanceOfZeroAddress
  ELSE IF _caseId = 7 THEN checkMetadataName
  ELSE IF _caseId = 8 THEN checkMetadataSymbol
  ELSE IF _caseId = 9 THEN checkTotalSupply
  ELSE IF _caseId = 10 THEN checkZeroTokenByIndex
  ELSE << AssertFalse("BasicValidator") >>

(***************************************************************************)
(* TokenValidator                                                          *)
(***************************************************************************)
checkTokenUri ==
  << Call("checkTokenUri", "probe", "target", "tokenURI", <<"tokenId">>,
          "string", "none", "none") >>

checkBalanceBasedOnToken ==
  << Call("checkBalanceBasedOnToken", "probe", "target", "ownerOf",
          <<"tokenId">>, "address", "none", "owner"),
     Call("checkBalanceBasedOnToken", "probe", "target", "balanceOf",
          <<"owner">>, "uint", "gt0", "none") >>

checkNotEmptyOwner ==
  << Call("checkNotEmptyOwner", "probe", "target", "ownerOf", <<"tokenId">>,
          "address", "nonzero", "none") >>

\* TokenValidator running the last check for every other case id
TokenValidator_default(_caseId) ==
  IF _caseId = 1 THEN checkTokenUri
  ELSE IF _caseId = 2 THEN checkBalanceBasedOnToken
  ELSE checkNotEmptyOwner

TokenValidator(_caseId) ==
  IF _caseId = 1 THEN checkTokenUri
  ELSE IF _caseId = 2 THEN checkBalanceBasedOnToken
  ELSE IF _caseId = 3 THEN checkNotEmptyOwner
  ELSE << AssertFalse("TokenValidator") >>

(***************************************************************************)
(* Giver, Stub1 and TransferValidator                                      *)
(***************************************************************************)
\* Giver.getToken checking the value after it has moved the token
GiverGetToken_lateRequire ==
  << Call("Giver.getToken", "giver", "target", "ownerOf", <<"tokenId">>,
          "address", "none", "owner"),
     Call("Giver.getToken", "giver", "target", "transferFrom",
          <<"owner", "msg.sender", "tokenId">>, "void", "none", "none"),
     Require("Giver.getToken", "giver", "msgValueGeqMillion") >>

\* Giver.getToken(_contract, _tokenId), entered with msg.value by msg.sender
GiverGetToken ==
  << Require("Giver.getToken", "giver", "msgValueGeqMillion"),
     Call("Giver.getToken", "giver", "target", "ownerOf", <<"tokenId">>,
          "address", "none", "owner"),
     Call("Giver.getToken", "giver", "target", "transferFrom",
          <<"owner", "msg.sender", "tokenId">>, "void", "none", "none") >>

\* Stub1.transferToken(_contract, _tokenId, _receiver) with _receiver = stubAddress
Stub1TransferToken ==
  << Call("Stub1.transferToken", "stub", "target", "ownerOf", <<"tokenId">>,
          "address", "none", "owner"),
     Call("Stub1.transferToken", "stub", "target", "transferFrom",
          <<"owner", "stubAddress", "tokenId">>, "void", "none", "none") >>

getTokenFromGiver ==
  << CallValue("getTokenFromGiver", "probe", "giver", "getToken",
               <<"target", "tokenId">>, ether(1000000)) >>
  \o GiverGetToken

checkTransferFromGiver ==
  << Call("checkTransferFromGiver", "probe", "target", "transferFrom",
          <<"giver", "this", "tokenId">>, "void", "none", "none") >>

\* checkBalanceOnTransfer requiring an unchanged balance
checkBalanceOnTransfer_same ==
  << Call("checkBalanceOnTransfer", "probe", "target", "balanceOf",
          <<"stubAddress">>, "uint", "none", "balance"),
     Call("checkBalanceOnTransfer", "probe", "target", "transferFrom",
          <<"this", "stubAddress", "tokenId">>, "void", "none", "none"),
     Call("checkBalanceOnTransfer", "probe", "target", "balanceOf",
          <<"stubAddress">>, "uint", "eqBalance", "none") >>

checkBalanceOnTransfer ==
  << Call("checkBalanceOnTransfer", "probe", "target", "balanceOf",
          <<"stubAddress">>, "uint", "none", "balance"),
     Call("checkBalanceOnTransfer", "probe", "target", "transferFrom",
          <<"this", "stubAddress", "tokenId">>, "void", "none", "none"),
     Call("checkBalanceOnTransfer", "probe", "target", "balanceOf",
          <<"stubAddress">>, "uint", "eqBalancePlus1", "none") >>

\* checkTransferToZeroAddress transferring to the stub address
checkTransferToZeroAddress_toStub ==
  << Call("checkTransferToZeroAddress", "probe", "target", "transferFrom",
          <<"this", "stubAddress", "tokenId">>, "void", "none", "none") >>

checkTransferToZeroAddress ==
  << Call("checkTransferToZeroAddress", "probe", "target", "transferFrom",
          <<"this", "zero", "tokenId">>, "void", "none", "none") >>

checkSafeTransferCallBackData ==
  << New("checkSafeTransferCallBackData", "Stub2"),
     Call("checkSafeTransferCallBackData", "probe", "target", "safeTransferFrom",
          <<"this", "stub", "tokenId", "ffff">>, "void", "none", "none") >>

checkSafeTransferCallBack ==
  << New("checkSafeTransferCallBack", "Stub1"),
     Call("checkSafeTransferCallBack", "probe", "target", "safeTransferFrom",
          <<"this", "stub", "tokenId">>, "void", "none", "none") >>

checkSafeTransferNoCallBack ==
  << New("checkSafeTransferNoCallBack", "Stub4"),
     Call("checkSafeTransferNoCallBack", "probe", "target", "safeTransferFrom",
          <<"this", "stub", "tokenId", "ffff">>, "void", "none", "none") >>

checkSafeTransferWrongMagicValue ==
  << New("checkSafeTransferWrongMagicValue", "Stub3"),
     Call("checkSafeTransferWrongMagicValue", "probe", "target", "safeTransferFrom",
          <<"this", "stub", "tokenId">>, "void", "none", "none") >>

checkGetApproved ==
  << Call("checkGetApproved", "probe", "target", "approve",
          <<"stubAddress", "tokenId">>, "void", "none", "none"),
     Call("checkGetApproved", "probe", "target", "getApproved", <<"tokenId">>,
          "address", "eqStubAddress", "none") >>

\* checkApproveAndTransfer reading the balance before it approves
checkApproveAndTransfer_balanceFirst ==
  << New("checkApproveAndTransfer", "Stub1"),
     Call("checkApproveAndTransfer", "probe", "target", "balanceOf",
          <<"stubAddress">>, "uint", "none", "balance"),
     Call("checkApproveAndTransfer", "probe", "target", "approve",
          <<"stub", "tokenId">>, "void", "none", "none") >>
  \o Stub1TransferToken \o
  << Call("checkApproveAndTransfer", "probe", "target", "balanceOf",
          <<"stubAddress">>, "uint", "eqBalancePlus1", "none") >>

checkApproveAndTransfer ==
  << New("checkApproveAndTransfer", "Stub1"),
     Call("checkApproveAndTransfer", "probe", "target", "approve",
          <<"stub", "tokenId">>, "void", "none", "none"),
     Call("checkApproveAndTransfer", "probe", "target", "balanceOf",
          <<"stubAddress">>, "uint", "none", "balance") >>
  \o Stub1TransferToken \o
  << Call("checkApproveAndTransfer", "probe", "target", "balanceOf",
          <<"stubAddress">>, "uint", "eqBalancePlus1", "none") >>

checkApprovalForAll ==
  << Call("checkApprovalForAll", "probe", "target", "setApprovalForAll",
          <<"stubAddress", "true">>, "void", "none", "none"),
     Call("checkApprovalForAll", "probe", "target", "isApprovedForAll",
          <<"this", "stubAddress">>, "bool", "assert", "none") >>

checkApproveForAllAndTransfer ==
  << New("checkApproveForAllAndTransfer", "Stub1"),
     Call("checkApproveForAllAndTransfer", "probe", "target", "setApprovalForAll",
          <<"stub", "true">>, "void", "none", "none"),
     Call("checkApproveForAllAndTransfer", "probe", "target", "balanceOf",
          <<"stubAddress">>, "uint", "none", "balance") >>
  \o Stub1TransferToken \o
  << Call("checkApproveForAllAndTransfer", "probe", "target", "balanceOf",
          <<"stubAddress">>, "uint", "eqBalancePlus1", "none") >>

checkZeroTokenOfOwnerByIndex ==
  << Call("checkZeroTokenOfOwnerByIndex", "probe", "target", "balanceOf",
          <<"this">>, "uint", "gt0", "none"),
     Call("checkZeroTokenOfOwnerByIndex", "probe", "target", "tokenOfOwnerByIndex",
          <<"this", "0">>, "uint", "none", "none") >>

checkOverflowTokenOfOwnerByIndex ==
  << Call("checkOverflowTokenOfOwnerByIndex", "probe", "target", "balanceOf",
          <<"this">>, "uint", "none", "balance"),
     Call("checkOverflowTokenOfOwnerByIndex", "probe", "target",
          "tokenOfOwnerByIndex", <<"this", "balance">>, "uint", "none", "none") >>

\* TransferValidator running the check of case 3 before the giver step
TransferValidator_checkFirst(_caseId) ==
  IF _caseId = 1 THEN checkTransferFromGiver
  ELSE IF _caseId = 2 THEN getTokenFromGiver \o checkBalanceOnTransfer
  ELSE IF _caseId = 3 THEN checkTransferToZeroAddress \o getTokenFromGiver
  ELSE IF _caseId = 4 THEN getTokenFromGiver \o checkSafeTransferCallBackData
  ELSE IF _caseId = 5 THEN getTokenFromGiver \o checkSafeTransferCallBack
  ELSE IF _caseId = 6 THEN getTokenFromGiver \o checkSafeTransferNoCallBack
  ELSE IF _caseId = 7 THEN getTokenFromGiver \o checkSafeTransferWrongMagicValue
  ELSE IF _caseId = 8 THEN getTokenFromGiver \o checkGetApproved
  ELSE IF _caseId = 9 THEN getTokenFromGiver \o checkApproveAndTransfer
  ELSE IF _caseId = 10 THEN getTokenFromGiver \o checkApprovalForAll
  ELSE IF _caseId = 11 THEN getTokenFromGiver \o checkApproveForAllAndTransfer
  ELSE IF _caseId = 12 THEN getTokenFromGiver \o checkZeroTokenOfOwnerByIndex
  ELSE IF _caseId = 13 THEN getTokenFromGiver \o checkOverflowTokenOfOwnerByIndex
  ELSE IF _caseId = 14 THEN getTokenFromGiver
  ELSE << AssertFalse("TransferValidator") >>

TransferValidator(_caseId) ==
  IF _caseId = 1 THEN checkTransferFromGiver
  ELSE IF _caseId = 2 THEN getTokenFromGiver \o checkBalanceOnTransfer
  ELSE IF _caseId = 3 THEN getTokenFromGiver \o checkTransferToZeroAddress
  ELSE IF _caseId = 4 THEN getTokenFromGiver \o checkSafeTransferCallBackData
  ELSE IF _caseId = 5 THEN getTokenFromGiver \o checkSafeTransferCallBack
  ELSE IF _caseId = 6 THEN getTokenFromGiver \o checkSafeTransferNoCallBack
  ELSE IF _caseId = 7 THEN getTokenFromGiver \o checkSafeTransferWrongMagicValue
  ELSE IF _caseId = 8 THEN getTokenFromGiver \o checkGetApproved
  ELSE IF _caseId = 9 THEN getTokenFromGiver \o checkApproveAndTransfer
  ELSE IF _caseId = 10 THEN getTokenFromGiver \o checkApprovalForAll
  ELSE IF _caseId = 11 THEN getTokenFromGiver \o checkApproveForAllAndTransfer
  ELSE IF _caseId = 12 THEN getTokenFromGiver \o checkZeroTokenOfOwnerByIndex
  ELSE IF _caseId = 13 THEN getTokenFromGiver \o checkOverflowTokenOfOwnerByIndex
  ELSE IF _caseId = 14 THEN getTokenFromGiver
  ELSE << AssertFalse("TransferValidator") >>

(***************************************************************************)
(* On-chain values, and the execution of a probe constructor inside the    *)
(* node's simulation.  The target is any contract: each call on it either  *)
(* reverts or returns some value of the declared type, and a revert        *)
(* bubbles up through the constructor.                                     *)
(***************************************************************************)
Uint(n) == [type |-> "uint", n |-> n]
Address(a) == [type |-> "address", a |-> a]
Bool(b) == [type |-> "bool", b |-> b]
Bytes(s) == [type |-> "bytes", s |-> s]
Bytes32(h) == [type |-> "bytes32", h |-> h]
Void == [type |-> "void"]

\* the value an argument expression of a step denotes in execution e
Resolve(arg, e) ==
  CASE arg = "this" -> Address(ProbeAddress)
    [] arg = "msg.sender" -> e.caller
    [] arg = "zero" -> Address(ZeroAddress)
    [] arg = "stubAddress" -> Address(stubAddress)
    [] arg = "target" -> e.target
    [] arg = "giver" -> e.giver
    [] arg = "tokenId" -> e.tokenId
    [] arg = "balance" -> e.balance
    [] arg = "owner" -> e.owner
    [] arg = "stub" -> e.stub
    [] arg = "0" -> Uint(0)
    [] arg = "true" -> Bool(TRUE)
    [] OTHER -> Bytes(arg)

\* what a call of the given return type can hand back
RetDomain(t) ==
  CASE t = "bool" -> {Bool(TRUE), Bool(FALSE)}
    [] t = "uint" -> {Uint(n) : n \in 0..MaxUint}
    [] t = "address" -> {Address(a) : a \in {ZeroAddress, OwnerAddress,
                                             ProbeAddress, stubAddress}}
    [] t = "string" -> {Bytes("text")}
    [] t = "hash" -> {Bytes32("0x0"), Bytes32(accountHash), Bytes32("0xc0de")}
    [] OTHER -> {Void}

\* the require/assert wrapped around a step's value
Passes(check, ret, e) ==
  CASE check = "assert" -> ret = Bool(TRUE)
    [] check = "gt0" -> ret.n > 0
    [] check = "geq0" -> ret.n >= 0
    [] check = "nonzero" -> ret # Address(ZeroAddress)
    [] check = "eqStubAddress" -> ret = Address(stubAddress)
    [] check = "eqBalancePlus1" -> e.balance.n < MaxUint /\ ret.n = e.balance.n + 1
    [] check = "eqBalance" -> ret = e.balance
    [] check = "isContract" -> isContract(ret.h)
    [] check = "msgValueGeqMillion" -> GeqWei(e.msgValue, ether(1000000))
    [] OTHER -> TRUE

Reverted == [outcome |-> "reverted", ret |-> Void]
Returned(v) == [outcome |-> "returned", ret |-> v]
\* balance + 1 evaluated before the call and out of range: the order in
\* which the operands of == are evaluated is not specified
Overflow == [outcome |-> "overflow", ret |-> Void]

\* everything one step can do
Outcomes(step, e) ==
  CASE step.kind = "call" ->
         {Reverted} \cup {Returned(v) : v \in RetDomain(step.ret)}
         \cup (IF step.check = "eqBalancePlus1" /\ e.balance.n = MaxUint
               THEN {Overflow} ELSE {})
    [] step.kind = "callvalue" ->
         IF GeqWei(e.value, step.value)
         THEN {Reverted, Returned(Void)} ELSE {Reverted}
    [] step.kind = "read" -> {Returned(v) : v \in RetDomain(step.ret)}
    [] step.kind = "new" -> {Returned(Address(step.args[1]))}
    [] step.kind = "require" ->
         IF Passes(step.check, Void, e) THEN {Returned(Void)} ELSE {Reverted}
    [] OTHER -> {Reverted}

\* the constructor the deployment runs
Program(e) ==
  CASE e.kind = "BasicValidator" -> BasicValidator(e.caseId)
    [] e.kind = "TokenValidator" -> TokenValidator(e.caseId)
    [] e.kind = "TransferValidator" -> TransferValidator(e.caseId)
    [] e.kind = "Giver" -> GiverGetToken

Entry(step, e, out) ==
  [in |-> step.in, from |-> step.from, to |-> step.to, fn |-> step.fn,
   args |-> [k \in 1..Len(step.args) |-> Resolve(step.args[k], e)],
   outcome |-> out.outcome, ret |-> out.ret]

Stored(step, e, out) ==
  CASE step.store = "balance" -> [e EXCEPT !.balance = out.ret]
    [] step.store = "owner" -> [e EXCEPT !.owner = out.ret]
    [] step.store = "stub" -> [e EXCEPT !.stub = out.ret]
    [] step.store = "msgValue" -> [e EXCEPT !.msgValue = step.value]
    [] OTHER -> e

\* execution e after its next step took outcome out
ExecStep(e, out) ==
  LET step == Program(e)[e.pc]
      logged == [e EXCEPT !.trace = Append(@, Entry(step, e, out))]
  IN  IF out.outcome = "overflow"
      THEN [e EXCEPT !.status = "reverted"]
      ELSE IF out.outcome = "reverted" \/ ~Passes(step.check, out.ret, e)
      THEN [logged EXCEPT !.status = "reverted"]
      ELSE [Stored(step, logged, out) EXCEPT
              !.pc = @ + 1,
              !.status = IF e.pc = Len(Program(e)) THEN "success" ELSE "running"]

(***************************************************************************)
(* The node behind web3: estimateGas simulates the deployment of the probe *)
(* named by the request and answers through the callback.                  *)
(***************************************************************************)
\* the contract whose creation code a DATA_* constant holds
ProbeOf(data) ==
  CASE data = "DATA_BASIC" -> "BasicValidator"
    [] data = "DATA_TOKEN" -> "TokenValidator"
    [] data = "DATA_TRANSFER" -> "TransferValidator"

\* ABI encoding of the constructor arguments
AbiUint(v) == Uint(v.n)
AbiAddress(v) == Address(v.s)

\* msg.value of the simulated deployment
DeployValue(options) ==
  IF options = Undefined THEN <<0>> ELSE ParseWei(options.value)

StartExecution(i, deploy, options) ==
  [status |-> "running", call |-> i, kind |-> ProbeOf(deploy.data),
   caseId |-> deploy.arguments[1].n,
   target |-> AbiAddress(deploy.arguments[2]),
   tokenId |-> IF Len(deploy.arguments) >= 3
               THEN AbiUint(deploy.arguments[3]) ELSE Uint(0),
   giver |-> IF Len(deploy.arguments) >= 4
             THEN AbiAddress(deploy.arguments[4]) ELSE Address(ZeroAddress),
   value |-> DeployValue(options), msgValue |-> <<0>>,
   pc |-> 1, trace |-> <<>>,
   balance |-> Uint(0), owner |-> Address(ZeroAddress),
   stub |-> Address(ZeroAddress), caller |-> Address(ProbeAddress)]

\* the node takes up the estimateGas request of call i
NodeSimulate(i) ==
  /\ evm.status = "idle"
  /\ calls[i].pc = "awaiting"
  /\ ~calls[i].cb.called
  /\ calls[i].log[3].op = "estimateGas"
  /\ evm' = StartExecution(i, calls[i].log[2], calls[i].log[3].options)
  /\ UNCHANGED <<web3, millionCoinAddress, calls>>

\* one step of the constructor
EvmStep ==
  /\ evm.status = "running"
  /\ \E out \in Outcomes(Program(evm)[evm.pc], evm) : evm' = ExecStep(evm, out)
  /\ UNCHANGED <<web3, millionCoinAddress, calls>>

\* errors with which a node reports a reverted simulation
RevertReplies ==
  { err \in ErrorReplies :
      \/ Includes(String(err), AlwaysFailingTransaction)
      \/ Includes(String(err), ExecutionReverted) }

\* the node answers: a gas number after a successful constructor, an error
\* after a reverted one
NodeReply(i, err, gas) ==
  /\ evm.status \in {"success", "reverted"}
  /\ evm.call = i
  /\ IF evm.status = "success"
     THEN err = Null /\ gas # Undefined
     ELSE err \in RevertReplies /\ gas = Undefined
  /\ estimateGasCallback(i, err, gas)

(***************************************************************************)
(* Giver.getToken called on its own, by any account with any value.        *)
(***************************************************************************)
Nines(n) == [k \in 1..n |-> 9]
GiverValues ==
  {<<0>>, ether(1), ether(999999), Nines(24), ether(1000000), ether(1000001)}
GiverCallers == {Address(ProbeAddress), Address(OwnerAddress)}

\* a transaction enters getToken(_contract, _tokenId) with msg.value
GiverCall(sender, value, tokenId) ==
  /\ evm.status = "idle"
  /\ evm' = [status |-> "running", call |-> 0, kind |-> "Giver", caseId |-> 0,
             target |-> Address("0xf176"), tokenId |-> Uint(tokenId),
             giver |-> Address("0xa013"), value |-> value, msgValue |-> value,
             pc |-> 1, trace |-> <<>>, balance |-> Uint(0),
             owner |-> Address(ZeroAddress), stub |-> Address(ZeroAddress),
             caller |-> sender]
  /\ UNCHANGED <<web3, millionCoinAddress, calls>>

\* the transaction is over
GiverDone ==
  /\ evm.status \in {"success", "reverted"}
  /\ evm' = NoSimulation
  /\ UNCHANGED <<web3, millionCoinAddress, calls>>

InitGiver ==
  /\ web3 = "web3A"
  /\ millionCoinAddress = Str("0xbe0e")
  /\ calls = <<>>
  /\ evm = NoSimulation

NextGiver ==
  \/ \E sender \in GiverCallers, value \in GiverValues, tokenId \in 0..MaxUint :
       GiverCall(sender, value, tokenId)
  \/ EvmStep
  \/ GiverDone

SpecGiver == InitGiver /\ [][NextGiver]_vars

(***************************************************************************)
(* The receiver stubs, called on their own with any data.  Bytes are       *)
(* numbers, a bytes value is a sequence of them.                           *)
(***************************************************************************)
MaxDataLen == 4
DataBytes == {101, 102, 103}
MAGIC_ON_ERC721_RECEIVED == "0x150b7a02"
MAGIC_ON_ERC721_RECEIVED_FALSE == "0x150b7a0b"
\* the string literals "" and "ffff" as bytes
EmptyLiteral == <<>>
ffffLiteral == <<102, 102, 102, 102>>

Min(x, y) == IF x < y THEN x ELSE y

\* the loop of compare2 from index i on, then the comparison of the lengths
RECURSIVE compare2Loop(_, _, _)
compare2Loop(a, b, i) ==
  IF i <= Min(Len(a), Len(b))
  THEN IF a[i] < b[i] THEN -1
       ELSE IF a[i] > b[i] THEN 1
       ELSE compare2Loop(a, b, i + 1)
  ELSE IF Len(a) < Len(b) THEN -1
       ELSE IF Len(a) > Len(b) THEN 1
       ELSE 0

\* compare2 that stops at the end of the shorter operand
compare2_prefix(_a, _b) ==
  IF \E i \in 1..Min(Len(_a), Len(_b)) : _a[i] # _b[i] THEN 1 ELSE 0

compare2(_a, _b) == compare2Loop(_a, _b, 1)

\* the external functions of each stub
StubFunctions(stub) ==
  CASE stub = "Stub1" -> {"onERC721Received", "transferToken"}
    [] stub = "Stub2" -> {"onERC721Received"}
    [] stub = "Stub3" -> {"onERC721Received"}
    [] stub = "Stub4" -> {"test"}

\* onERC721Received(_operator, _from, _tokenId, _data) of each stub
Stub1_onERC721Received(_data) ==
  IF compare2(_data, EmptyLiteral) = 0
  THEN Returned(Bytes(MAGIC_ON_ERC721_RECEIVED)) ELSE Reverted

Stub2_onERC721Received(_data) ==
  IF compare2(_data, ffffLiteral) = 0
  THEN Returned(Bytes(MAGIC_ON_ERC721_RECEIVED)) ELSE Reverted

Stub3_onERC721Received(_data) == Returned(Bytes(MAGIC_ON_ERC721_RECEIVED_FALSE))

\* a call of fn on a stub: a contract without the function and without a
\* fallback reverts
StubDispatch(stub, fn, _data) ==
  IF fn \notin StubFunctions(stub) THEN Reverted
  ELSE CASE fn = "test" -> Returned(Void)
         [] stub = "Stub1" -> Stub1_onERC721Received(_data)
         [] stub = "Stub2" -> Stub2_onERC721Received(_data)
         [] stub = "Stub3" -> Stub3_onERC721Received(_data)

RECURSIVE SeqsUpTo(_)
SeqsUpTo(n) ==
  IF n = 0 THEN {<<>>}
  ELSE SeqsUpTo(n - 1)
       \cup {Append(d, c) : d \in {q \in SeqsUpTo(n - 1) : Len(q) = n - 1},
                           c \in DataBytes}

\* some contract calls fn on a stub
StubCall(stub, fn, _data) ==
  /\ evm.status = "idle"
  /\ evm' = [status |-> "called", kind |-> "StubCall", stub |-> stub, fn |-> fn,
             data |-> _data, ret |-> Void]
  /\ UNCHANGED <<web3, millionCoinAddress, calls>>

\* the stub runs the function and returns or reverts
StubRun ==
  /\ evm.status = "called"
  /\ LET out == StubDispatch(evm.stub, evm.fn, evm.data)
     IN  evm' = [evm EXCEPT
                   !.status = IF out.outcome = "returned" THEN "success"
                              ELSE "reverted",
                   !.ret = out.ret]
  /\ UNCHANGED <<web3, millionCoinAddress, calls>>

\* the call is over
StubDone ==
  /\ evm.status \in {"success", "reverted"}
  /\ evm' = NoSimulation
  /\ UNCHANGED <<web3, millionCoinAddress, calls>>

NextStub ==
  \/ \E stub \in {"Stub1", "Stub2", "Stub3", "Stub4"},
        fn \in {"onERC721Received", "test"}, _data \in SeqsUpTo(MaxDataLen) :
       StubCall(stub, fn, _data)
  \/ StubRun
  \/ StubDone

SpecStub == InitGiver /\ [][NextStub]_vars

(***************************************************************************)
(* The legacy Validator contract (pragma ^0.4.24), deployed once and       *)
(* called by anyone.  Every external call it makes hands control to        *)
(* another contract, which may call back into the Validator before it      *)
(* returns or reverts; a revert undoes what its call has changed.          *)
(* evm holds the storage of the contract and the stack of its calls: a     *)
(* call made from outside and, at most, one onERC721Received called back   *)
(* while an external call of the first is pending.                         *)
(***************************************************************************)
\* two token contracts and an account without code
LegacyContracts == {"0xf176", "0xc0de"}
LegacySenders == LegacyContracts \cup {"0xe0a"}
NoReceipt == [has |-> FALSE, id |-> 0]
Top(st) == st.frames[Len(st.frames)]
Pop(st) == [st EXCEPT !.frames = SubSeq(@, 1, Len(@) - 1)]

\* a failed call leaves the storage as it was when the call began
Rollback(st) ==
  [Pop(st) EXCEPT !.contractToId = Top(st).snap.contractToId,
                  !.received = Top(st).snap.received]

\* the external call a function makes first, with its arguments
FirstCall(st, fn, sender, target, tokenId) ==
  CASE fn = "onERC721Received" ->
         [to |-> sender, call |-> "supportsInterface", id |-> 0]
    [] fn = "checkBalanceOnTransfer" ->
         [to |-> target, call |-> "balanceOf", id |-> 0]
    [] fn = "checkTransferToZeroAddress" ->
         [to |-> target, call |-> "transferFrom", id |-> st.contractToId[target]]
    [] fn = "checkTransferFromGiver" ->
         [to |-> target, call |-> "transferFrom", id |-> tokenId]

\* msg.sender calls fn(_target, _tokenId) of the Validator
Enter(st, fn, sender, target, tokenId) ==
  [st EXCEPT
     !.frames = Append(@,
       [fn |-> fn, sender |-> sender, target |-> target, tokenId |-> tokenId,
        pending |-> FirstCall(st, fn, sender, target, tokenId),
        balance |-> 0, step |-> 1,
        expected |-> st.received[target].id,
        snap |-> [contractToId |-> st.contractToId, received |-> st.received]]),
     !.last = [kind |-> "call", ret |-> Void]]

\* onERC721Received recording the id under the previous owner _from
Validator_onERC721Received_from(st, ret) ==
  LET f == Top(st) IN
  IF ret = Bool(TRUE)
  THEN [Pop(st) EXCEPT !.contractToId[f.target] = f.tokenId,
                       !.received[f.sender] = [has |-> TRUE, id |-> f.tokenId],
                       !.last = [kind |-> "return",
                                 ret |-> Bytes("0x150b7a02")]]
  ELSE [Rollback(st) EXCEPT !.last = [kind |-> "revert", ret |-> Void]]

\* onERC721Received after supportsInterface(ERC721ID) on msg.sender returned
Validator_onERC721Received(st, ret) ==
  LET f == Top(st) IN
  IF ret = Bool(TRUE)
  THEN [Pop(st) EXCEPT !.contractToId[f.sender] = f.tokenId,
                       !.received[f.sender] = [has |-> TRUE, id |-> f.tokenId],
                       !.last = [kind |-> "return",
                                 ret |-> Bytes("0x150b7a02")]]
  ELSE [Rollback(st) EXCEPT !.last = [kind |-> "revert", ret |-> Void]]

\* checkBalanceOnTransfer after its pending call on the target returned
Validator_checkBalanceOnTransfer(st, ret) ==
  LET f == Top(st)
      k == Len(st.frames)
  IN  CASE f.step = 1 ->
             [st EXCEPT !.frames[k].balance = ret.n,
                        !.frames[k].step = 2,
                        !.frames[k].expected = st.received[f.target].id,
                        !.frames[k].pending =
                           [to |-> f.target, call |-> "transferFrom",
                            id |-> st.contractToId[f.target]],
                        !.last = [kind |-> "return", ret |-> Void]]
        [] f.step = 2 ->
             [st EXCEPT !.frames[k].step = 3,
                        !.frames[k].pending =
                           [to |-> f.target, call |-> "balanceOf", id |-> 0],
                        !.last = [kind |-> "return", ret |-> Void]]
        [] f.step = 3 ->
             IF f.balance < MaxUint /\ ret.n = f.balance + 1
             THEN [Pop(st) EXCEPT !.last = [kind |-> "return", ret |-> Void]]
             ELSE [Rollback(st) EXCEPT !.last = [kind |-> "revert", ret |-> Void]]

\* checkTransferToZeroAddress and checkTransferFromGiver end with their call
Validator_checkTransferToZeroAddress(st, ret) ==
  [Pop(st) EXCEPT !.last = [kind |-> "return", ret |-> Void]]

Validator_checkTransferFromGiver(st, ret) ==
  [Pop(st) EXCEPT !.last = [kind |-> "return", ret |-> Void]]

\* what the pending call of the running function can return
LegacyReturns(f) ==
  CASE f.pending.call = "supportsInterface" ->
         IF f.sender \in LegacyContracts THEN {Bool(TRUE), Bool(FALSE)} ELSE {}
    [] f.pending.call = "balanceOf" -> {Uint(n) : n \in 0..MaxUint}
    [] OTHER -> {Void}

\* a transaction calls a function of the Validator
LegacyCall(fn, sender, target, tokenId) ==
  /\ evm.status = "chain"
  /\ evm.frames = <<>>
  /\ evm' = Enter(evm, fn, sender, target, tokenId)
  /\ UNCHANGED <<web3, millionCoinAddress, calls>>

\* the contract in control of a pending external call calls back
LegacyCallback(fn, sender, target, tokenId) ==
  /\ evm.status = "chain"
  /\ Len(evm.frames) = 1
  /\ evm' = Enter(evm, fn, sender, target, tokenId)
  /\ UNCHANGED <<web3, millionCoinAddress, calls>>

\* the pending external call of the running function returns ret
LegacyReturn(ret) ==
  /\ evm.status = "chain"
  /\ evm.frames # <<>>
  /\ ret \in LegacyReturns(Top(evm))
  /\ evm' =
       CASE Top(evm).fn = "onERC721Received" ->
              Validator_onERC721Received(evm, ret)
         [] Top(evm).fn = "checkBalanceOnTransfer" ->
              Validator_checkBalanceOnTransfer(evm, ret)
         [] Top(evm).fn = "checkTransferToZeroAddress" ->
              Validator_checkTransferToZeroAddress(evm, ret)
         [] Top(evm).fn = "checkTransferFromGiver" ->
              Validator_checkTransferFromGiver(evm, ret)
  /\ UNCHANGED <<web3, millionCoinAddress, calls>>

\* the pending external call reverts, and the running function with it
LegacyRevert ==
  /\ evm.status = "chain"
  /\ evm.frames # <<>>
  /\ evm' = [Rollback(evm) EXCEPT !.last = [kind |-> "revert", ret |-> Void]]
  /\ UNCHANGED <<web3, millionCoinAddress, calls>>

\* constructor(_stub1, _stub2, _stub3): the mapping starts empty
InitLegacy ==
  /\ web3 = "web3A"
  /\ millionCoinAddress = Undefined
  /\ calls = <<>>
  /\ evm = [status |-> "chain",
            contractToId |-> [c \in LegacyContracts |-> 0],
            received |-> [c \in LegacyContracts |-> NoReceipt],
            frames |-> <<>>,
            last |-> [kind |-> "deploy", ret |-> Void]]

\* the calls that can be made: arguments a function ignores are fixed
LegacyCalls ==
  {<<"onERC721Received", sender, from, tokenId>> :
     sender \in LegacySenders, from \in LegacyContracts, tokenId \in 0..MaxUint}
  \cup {<<fn, "0xe0a", target, 0>> :
          fn \in {"checkBalanceOnTransfer", "checkTransferToZeroAddress"},
          target \in LegacyContracts}
  \cup {<<"checkTransferFromGiver", "0xe0a", "0xf176", 1>>}

NextLegacy ==
  \/ \E c \in LegacyCalls : LegacyCall(c[1], c[2], c[3], c[4])
  \/ \E c \in {d \in LegacyCalls : d[1] = "onERC721Received"} :
       LegacyCallback(c[1], c[2], c[3], c[4])
  \/ \E ret \in {Bool(TRUE), Bool(FALSE), Void} \cup {Uint(n) : n \in 0..MaxUint} :
       LegacyReturn(ret)
  \/ LegacyRevert

SpecLegacy == InitLegacy /\ [][NextLegacy]_vars

\* a caller with all arguments at hand, one call at a time, against a node
MaxCase == 15
InitProbe ==
  /\ web3 = "web3A"
  /\ millionCoinAddress = Str("0xbe0e")
  /\ calls = <<>>
  /\ evm = NoSimulation

NextProbe ==
  \/ \E test \in 0..MaxCase :
       calls = <<>> /\ basic(test, Str("0xf176"))
  \/ \E test \in 0..MaxCase :
       calls = <<>> /\ token(test, Str("0xf176"), Num(1))
  \/ \E test \in 0..MaxCase :
       calls = <<>> /\ transfer(test, Str("0xf176"), Num(1), Str("0xa013"))
  \/ \E i \in 1..Len(calls) : NodeSimulate(i)
  \/ EvmStep
  \/ \E i \in 1..Len(calls), err \in ErrReplies, gas \in GasReplies :
       NodeReply(i, err, gas)
  \/ \E i \in 1..Len(calls) :
       calls[i].cb.called /\ Falsy(calls[i].cb.err) /\ AwaitFulfilled(i)
  \/ \E i \in 1..Len(calls) :
       /\ calls[i].cb.called
       /\ ~Falsy(calls[i].cb.err)
       /\ AwaitRejected(i, calls[i].cb.err)
  \/ \E i \in 1..Len(calls) : Return(i)

SpecProbe == InitProbe /\ [][NextProbe]_vars

(***************************************************************************)
(* Vocabulary of the properties.                                           *)
(***************************************************************************)
\* the registered case ids of each category
CaseRange(method) ==
  CASE method = "basic" -> 1..10
    [] method = "token" -> 1..3
    [] method = "transfer" -> 1..14

\* the message of the first missing required argument, "" if none is missing
FirstMissing(c) ==
  IF Falsy(c.params.contract) THEN MsgContract
  ELSE IF c.method \in {"token", "transfer"} /\ Falsy(c.params.tokenId) THEN MsgTokenId
  ELSE IF c.method = "transfer" /\ Falsy(c.params.giver) THEN MsgGiver
  ELSE ""

ArgsPresent(c) == FirstMissing(c) = ""

\* the error carries an expected-failure signature
HasSignature(err) ==
  \/ Includes(String(err), AlwaysFailingTransaction)
  \/ Includes(String(err), ExecutionReverted)

GotNoError(c) == c.cb.called /\ Falsy(c.cb.err)
GotExpectedRevert(c) == c.cb.called /\ ~Falsy(c.cb.err) /\ HasSignature(c.cb.err)
GotUnknownError(c) == c.cb.called /\ ~Falsy(c.cb.err) /\ ~HasSignature(c.cb.err)

EstimateGasRequests(c) == Cardinality({k \in DOMAIN c.log : c.log[k].op = "estimateGas"})

(***************************************************************************)
(* C1: when the estimateGas callback receives an error that contains       *)
(* neither signature, the returned promise is rejected with that very      *)
(* error (and so never holds a result object with result = false).         *)
(***************************************************************************)
C1_UnknownErrorRejectsWithIt ==
  \A i \in DOMAIN calls :
    GotUnknownError(calls[i]) =>
      calls[i].promise = [state |-> "rejected", value |-> calls[i].cb.err]

(***************************************************************************)
(* C2: when the estimateGas callback reports a gas number g and no error,  *)
(* the promise is resolved with exactly {result: true, gas: g}.            *)
(***************************************************************************)
C2_GasResolvesTrue ==
  \A i \in DOMAIN calls :
    (GotNoError(calls[i]) /\ calls[i].cb.gas.type = "number") =>
      calls[i].promise =
        [state |-> "resolved", value |-> ResultObject(TRUE, calls[i].cb.gas)]

(***************************************************************************)
(* C3: a call with all required arguments is resolved with result = false  *)
(* if and only if its callback received an error whose string form         *)
(* contains 'always failing transaction' or 'execution reverted'.          *)
(***************************************************************************)
C3_FalseIffSignature ==
  \A i \in DOMAIN calls :
    ArgsPresent(calls[i]) =>
      ( (/\ calls[i].promise.state = "resolved"
         /\ calls[i].promise.value.result = FALSE)
        <=> GotExpectedRevert(calls[i]) )

C3_Witness ==
  \E i \in DOMAIN calls :
    /\ ArgsPresent(calls[i])
    /\ GotExpectedRevert(calls[i])
    /\ Includes(String(calls[i].cb.err), ExecutionReverted)
    /\ calls[i].promise.state = "resolved"
    /\ calls[i].promise.value.result = FALSE

(***************************************************************************)
(* C4: whenever a call is classified as an expected revert, the gas in the *)
(* result is 0, whatever gas the collaborator passed with the error.       *)
(***************************************************************************)
C4_ExpectedRevertGasZero ==
  \A i \in DOMAIN calls :
    (GotExpectedRevert(calls[i]) /\ calls[i].promise.state = "resolved") =>
      calls[i].promise.value.gas = Num(0)

(***************************************************************************)
(* C5: a call with a missing required argument fails with the message of   *)
(* the first missing one in the order contract, tokenId, giver, and that   *)
(* stays its outcome whatever the collaborator reports afterwards.         *)
(***************************************************************************)
C5_MissingArgumentFails ==
  \A i \in DOMAIN calls :
    ~ArgsPresent(calls[i]) =>
      calls[i].promise = [state |-> "rejected", value |-> Str(FirstMissing(calls[i]))]

C5_Witness ==
  \E i \in DOMAIN calls :
    /\ calls[i].method = "transfer"
    /\ Falsy(calls[i].params.contract)
    /\ Falsy(calls[i].params.giver)
    /\ GotNoError(calls[i])
    /\ calls[i].pc = "done"
    /\ calls[i].promise = [state |-> "rejected", value |-> Str(MsgContract)]

(***************************************************************************)
(* C6: when a required argument is missing, the call invokes nothing on    *)
(* the collaborator: no Contract construction, no deploy, no estimateGas.  *)
(***************************************************************************)
C6_MissingArgumentNoRequest ==
  \A i \in DOMAIN calls :
    ~ArgsPresent(calls[i]) => calls[i].log = <<>>

(***************************************************************************)
(* C7: for a case id outside the category's registered range the call      *)
(* fails with UnknownCase and invokes nothing on the collaborator.         *)
(***************************************************************************)
C7_UnknownCaseFailsLocally ==
  \A i \in DOMAIN calls :
    calls[i].params.test \notin CaseRange(calls[i].method) =>
      /\ calls[i].promise = [state |-> "rejected", value |-> Str("UnknownCase")]
      /\ calls[i].log = <<>>

(***************************************************************************)
(* C8: a call with all required arguments issues exactly one estimateGas   *)
(* request, in every state of the call: none is added after an expected    *)
(* revert, an unknown error or a rejection.                                *)
(***************************************************************************)
C8_ExactlyOneEstimate ==
  \A i \in DOMAIN calls :
    ArgsPresent(calls[i]) => EstimateGasRequests(calls[i]) = 1

C8_Witness ==
  \E i \in DOMAIN calls :
    /\ ArgsPresent(calls[i])
    /\ GotUnknownError(calls[i])
    /\ calls[i].pc = "done"
    /\ EstimateGasRequests(calls[i]) = 1

(***************************************************************************)
(* C9: the only operation an entry point invokes on a deployment object    *)
(* (what deploy returned) is estimateGas; nothing is ever sent.            *)
(***************************************************************************)
C9_OnlyEstimateGas ==
  \A i \in DOMAIN calls :
    \A k \in DOMAIN calls[i].log :
      /\ calls[i].log[k].op \in {"Contract", "deploy", "estimateGas"}
      /\ (k > 1 /\ calls[i].log[k - 1].op = "deploy")
           => calls[i].log[k].op = "estimateGas"

C9_Witness ==
  \E i \in DOMAIN calls :
    /\ calls[i].method = "token"
    /\ calls[i].pc = "done"
    /\ calls[i].promise.state = "resolved"
    /\ \E k \in DOMAIN calls[i].log : calls[i].log[k].op = "estimateGas"

(***************************************************************************)
(* C10: the constructor arguments sent are [caseId, contract] for basic,   *)
(* [caseId, contract, tokenId] for token and [caseId, contract, tokenId,   *)
(* giver] for transfer, the caller's values unchanged, each with its own   *)
(* category's ABI and bytecode.                                            *)
(***************************************************************************)
C10_ArgumentsAndCodes ==
  \A i \in DOMAIN calls :
    LET c == calls[i]
        a == c.params
    IN  /\ c.method = "basic" =>
             /\ c.log[1].abi = "ABI_BASIC"
             /\ c.log[2].data = "DATA_BASIC"
             /\ c.log[2].arguments = <<Num(a.test), a.contract>>
        /\ c.method = "token" =>
             /\ c.log[1].abi = "ABI_TOKEN"
             /\ c.log[2].data = "DATA_TOKEN"
             /\ c.log[2].arguments = <<Num(a.test), a.contract, a.tokenId>>
        /\ c.method = "transfer" =>
             /\ c.log[1].abi = "ABI_TRANSFER"
             /\ c.log[2].data = "DATA_TRANSFER"
             /\ c.log[2].arguments = <<Num(a.test), a.contract, a.tokenId, a.giver>>

C10_Witness ==
  \E i \in DOMAIN calls :
    /\ calls[i].method = "transfer"
    /\ ArgsPresent(calls[i])
    /\ calls[i].params.tokenId = Num(1)
    /\ calls[i].log[2].arguments =
         <<Num(calls[i].params.test), Str("0xf176"), Num(1), Str("0xa013")>>

(***************************************************************************)
(* C11: every transfer simulation is requested with sender equal to the    *)
(* instance's millionCoinAddress and value '1000000000000000000000000';    *)
(* basic and token simulations carry no sender or value.                   *)
(***************************************************************************)
C11_TransferEnvelope ==
  \A i \in DOMAIN calls :
    \A k \in DOMAIN calls[i].log :
      calls[i].log[k].op = "estimateGas" =>
        IF calls[i].method = "transfer"
        THEN calls[i].log[k].options =
               [from |-> millionCoinAddress, value |-> "1000000000000000000000000"]
        ELSE calls[i].log[k].options = Undefined

C11_Witness ==
  \E i \in DOMAIN calls :
    /\ calls[i].method = "transfer"
    /\ millionCoinAddress = Str("0xa013")
    /\ calls[i].log[3].op = "estimateGas"
    /\ calls[i].log[3].options.from = Str("0xa013")
    /\ calls[i].log[3].options.value = "1000000000000000000000000"

OwnOutcome(c) ==
  IF ~ArgsPresent(c) THEN [state |-> "rejected", value |-> Str(FirstMissing(c))]
  ELSE IF GotNoError(c) THEN [state |-> "resolved", value |-> ResultObject(TRUE, c.cb.gas)]
  ELSE IF GotExpectedRevert(c)
    THEN [state |-> "resolved", value |-> ResultObject(FALSE, c.cb.gas)]
  ELSE IF GotUnknownError(c) THEN [state |-> "rejected", value |-> c.cb.err]
  ELSE IF c.awaited.kind = "rejected" THEN [state |-> "rejected", value |-> c.awaited.e]
  ELSE Pending

(***************************************************************************)
(* C13: with several calls in flight on one instance, under every          *)
(* interleaving of their callbacks each call holds the outcome its own     *)
(* arguments and its own request's reply determine; no other call's        *)
(* callback settles or alters it.                                          *)
(***************************************************************************)
C13_CallsIndependent ==
  \A i \in DOMAIN calls : calls[i].promise = OwnOutcome(calls[i])

C13_Witness ==
  \E i, j \in DOMAIN calls :
    /\ i < j
    /\ calls[i].method = "transfer" /\ calls[j].method = "basic"
    /\ ArgsPresent(calls[i]) /\ ArgsPresent(calls[j])
    /\ calls[j].pc = "done" /\ calls[i].pc = "awaiting"
    /\ GotNoError(calls[j]) /\ calls[j].promise.value.result = TRUE
    /\ GotExpectedRevert(calls[i]) /\ calls[i].promise.value.result = FALSE

(***************************************************************************)
(* C14: basic, token and transfer classify a reply identically: calls of   *)
(* any entry points that have all their required arguments and got the    *)
(* same reply hold the same verdict or the same failure.                   *)
(***************************************************************************)
C14_SameClassification ==
  \A i, j \in DOMAIN calls :
    (/\ ArgsPresent(calls[i]) /\ ArgsPresent(calls[j])
     /\ calls[i].cb = calls[j].cb
     /\ calls[i].awaited = calls[j].awaited)
      => calls[i].promise = calls[j].promise

C14_Witness ==
  \E i, j \in DOMAIN calls :
    /\ calls[i].method = "basic" /\ calls[j].method = "token"
    /\ ArgsPresent(calls[i]) /\ ArgsPresent(calls[j])
    /\ calls[i].cb = calls[j].cb
    /\ GotExpectedRevert(calls[i])
    /\ Includes(String(calls[i].cb.err), ExecutionReverted)
    /\ calls[i].promise = calls[j].promise
    /\ calls[i].promise.state = "resolved"

(***************************************************************************)
(* Vocabulary of the claims about the probes.                              *)
(***************************************************************************)
Finished == evm.status \in {"success", "reverted"}
Simulating(kind, cases) ==
  evm.status # "idle" /\ evm.kind = kind /\ evm.caseId \in cases
Caller == calls[evm.call]
TargetCalls == {k \in DOMAIN evm.trace : evm.trace[k].to = "target"}
IsCall(en, from, fn, args) ==
  en.from = from /\ en.to = "target" /\ en.fn = fn /\ en.args = args
InterfaceIdOf(caseId) ==
  CASE caseId = 2 -> ERC165ID
    [] caseId = 3 -> ERC721ID
    [] caseId = 4 -> ERC721MetadataID
    [] caseId = 5 -> ERC721EnumerableID
TokenArg == Uint(1)
TargetArg == Address("0xf176")
GiverArg == Address("0xa013")

(***************************************************************************)
(* C15: a finished BasicValidator deployment for case 2, 3, 4 or 5 has     *)
(* made exactly one call, supportsInterface on the target with the id      *)
(* 0x01ffc9a7, 0x80ac58cd, 0x5b5e139f or 0x780e9d63 of its case, and it    *)
(* succeeded if and only if that call returned true; once the node has     *)
(* answered a successful deployment, basic resolves with result true and   *)
(* the gas number of the answer.                                           *)
(***************************************************************************)
C15_InterfaceProbes ==
  (Finished /\ Simulating("BasicValidator", 2..5)) =>
    /\ Len(evm.trace) = 1
    /\ IsCall(evm.trace[1], "probe", "supportsInterface",
              <<Bytes(InterfaceIdOf(evm.caseId))>>)
    /\ evm.status = "success" <=>
         (evm.trace[1].outcome = "returned" /\ evm.trace[1].ret = Bool(TRUE))
    /\ (evm.status = "success" /\ Caller.cb.called) =>
         /\ Caller.method = "basic"
         /\ Caller.cb.gas.type = "number"
         /\ Caller.promise = [state |-> "resolved",
                              value |-> ResultObject(TRUE, Caller.cb.gas)]

C15_Witness ==
  /\ Simulating("BasicValidator", {3})
  /\ evm.status = "success"
  /\ evm.trace[1].args = <<Bytes("0x80ac58cd")>>
  /\ evm.trace[1].ret = Bool(TRUE)
  /\ Caller.params.test = 3
  /\ Caller.cb.called
  /\ Caller.promise.state = "resolved"
  /\ Caller.promise.value = ResultObject(TRUE, Num(MaxGas))

\* the cases whose checked call is documented as "should throw"
ShouldThrow ==
  /\ evm.status # "idle"
  /\ \/ evm.kind = "BasicValidator" /\ evm.caseId = 6
     \/ evm.kind = "TransferValidator" /\ evm.caseId \in {1, 3, 6, 7, 13}

\* en is the checked call of the running "should throw" case
CheckedCall(en) ==
  LET this == Address(ProbeAddress) IN
  CASE evm.kind = "BasicValidator" ->
         IsCall(en, "probe", "balanceOf", <<Address(ZeroAddress)>>)
    [] evm.caseId = 1 ->
         IsCall(en, "probe", "transferFrom", <<GiverArg, this, TokenArg>>)
    [] evm.caseId = 3 ->
         IsCall(en, "probe", "transferFrom",
                <<this, Address(ZeroAddress), TokenArg>>)
    [] evm.caseId = 6 ->
         IsCall(en, "probe", "safeTransferFrom",
                <<this, Address("Stub4"), TokenArg, Bytes("ffff")>>)
    [] evm.caseId = 7 ->
         IsCall(en, "probe", "safeTransferFrom",
                <<this, Address("Stub3"), TokenArg>>)
    [] OTHER ->
         IsCall(en, "probe", "tokenOfOwnerByIndex", <<this, evm.balance>>)

(***************************************************************************)
(* C16: in the "should throw" cases (Basic 6, Transfer 1, 3, 6, 7, 13) a   *)
(* checked call that the target reverts leaves the deployment reverted,    *)
(* and the call of the validator, once answered, resolved with result      *)
(* false; a deployment that succeeded ends with the checked call returned, *)
(* and is reported with result true.                                       *)
(***************************************************************************)
C16_ShouldThrowCases ==
  ShouldThrow =>
    /\ \A k \in DOMAIN evm.trace :
         (CheckedCall(evm.trace[k]) /\ evm.trace[k].outcome = "reverted") =>
           /\ evm.status = "reverted"
           /\ Caller.cb.called =>
                Caller.promise = [state |-> "resolved",
                                  value |-> ResultObject(FALSE, Caller.cb.gas)]
    /\ evm.status = "success" =>
         /\ evm.trace # <<>>
         /\ CheckedCall(evm.trace[Len(evm.trace)])
         /\ evm.trace[Len(evm.trace)].outcome = "returned"
         /\ \A k \in DOMAIN evm.trace : evm.trace[k].outcome = "returned"
         /\ Caller.cb.called =>
              Caller.promise = [state |-> "resolved",
                                value |-> ResultObject(TRUE, Caller.cb.gas)]

C16_Witness ==
  /\ Simulating("TransferValidator", {3})
  /\ evm.status = "reverted"
  /\ evm.trace[Len(evm.trace)].fn = "transferFrom"
  /\ evm.trace[Len(evm.trace)].args[2] = Address(ZeroAddress)
  /\ evm.trace[Len(evm.trace)].outcome = "reverted"
  /\ Caller.cb.called
  /\ Includes(String(Caller.cb.err), ExecutionReverted)
  /\ Caller.promise.state = "resolved"
  /\ Caller.promise.value.result = FALSE

(***************************************************************************)
(* C17: the BasicValidator case-1 deployment reads the balance of the      *)
(* target, which never stops it, then the code hash of the target, and     *)
(* succeeds if and only if that hash is neither 0x0 nor the hash of empty  *)
(* code; it makes no call on the target, and a successful deployment, once *)
(* answered, is reported by basic(1, target) with result true.             *)
(***************************************************************************)
C17_SanityCheck ==
  Simulating("BasicValidator", {1}) =>
    /\ TargetCalls = {}
    /\ \A k \in DOMAIN evm.trace :
         /\ evm.trace[k].fn = IF k = 1 THEN "balance" ELSE "extcodehash"
         /\ evm.trace[k].args = <<TargetArg>>
    /\ (Len(evm.trace) = 1) => evm.status = "running"
    /\ Finished =>
         /\ Len(evm.trace) = 2
         /\ evm.status = "success" <=>
              evm.trace[2].ret \notin {Bytes32("0x0"), Bytes32("0xc5d2")}
    /\ (evm.status = "success" /\ Caller.cb.called) =>
         Caller.promise = [state |-> "resolved",
                           value |-> ResultObject(TRUE, Caller.cb.gas)]

C17_Witness ==
  /\ Simulating("BasicValidator", {1})
  /\ evm.status = "success"
  /\ evm.trace[1].ret = Uint(0)
  /\ evm.trace[2].ret = Bytes32("0xc0de")
  /\ Caller.params.test = 1
  /\ Caller.cb.called
  /\ Caller.promise.state = "resolved"
  /\ Caller.promise.value.result = TRUE

\* the giver step went through: getToken was entered with the value it
\* requires and moved the token from its owner to the probe
GiverHandsToken ==
  /\ Len(evm.trace) >= 4
  /\ evm.trace[1].to = "giver" /\ evm.trace[1].fn = "getToken"
  /\ evm.trace[1].args = <<TargetArg, TokenArg>>
  /\ evm.trace[2].fn = "require"
  /\ IsCall(evm.trace[3], "giver", "ownerOf", <<TokenArg>>)
  /\ IsCall(evm.trace[4], "giver", "transferFrom",
            <<evm.trace[3].ret, Address(ProbeAddress), TokenArg>>)
  /\ \A k \in 1..4 : evm.trace[k].outcome = "returned"

AcceptsTransferToStub ==
  /\ Len(evm.trace) >= 6
  /\ IsCall(evm.trace[6], "probe", "transferFrom",
            <<Address(ProbeAddress), Address(stubAddress), TokenArg>>)
  /\ evm.trace[6].outcome = "returned"

BalanceGrewByOne ==
  /\ Len(evm.trace) >= 7
  /\ IsCall(evm.trace[5], "probe", "balanceOf", <<Address(stubAddress)>>)
  /\ IsCall(evm.trace[7], "probe", "balanceOf", <<Address(stubAddress)>>)
  /\ evm.trace[5].outcome = "returned"
  /\ evm.trace[7].outcome = "returned"
  /\ evm.trace[7].ret.n = evm.trace[5].ret.n + 1

(***************************************************************************)
(* C18: a finished TransferValidator case-2 deployment succeeded if and    *)
(* only if the giver handed the token to the probe, the target accepted    *)
(* transferFrom(probe, stubAddress, tokenId), and balanceOf(stubAddress)   *)
(* read after that transfer is the value read before it plus 1; a          *)
(* successful deployment, once answered, is reported by transfer(2, ...)   *)
(* with result true.                                                       *)
(***************************************************************************)
C18_BalanceOnTransfer ==
  (Finished /\ Simulating("TransferValidator", {2})) =>
    /\ evm.status = "success" <=>
         (GiverHandsToken /\ AcceptsTransferToStub /\ BalanceGrewByOne)
    /\ (evm.status = "success" /\ Caller.cb.called) =>
         /\ Caller.method = "transfer"
         /\ Caller.promise = [state |-> "resolved",
                              value |-> ResultObject(TRUE, Caller.cb.gas)]

C18_Witness ==
  /\ Simulating("TransferValidator", {2})
  /\ evm.status = "success"
  /\ Len(evm.trace) = 7
  /\ evm.trace[5].ret = Uint(1)
  /\ evm.trace[7].ret = Uint(2)
  /\ Caller.cb.called
  /\ Caller.promise.state = "resolved"
  /\ Caller.promise.value.result = TRUE

\* the case ids a probe constructor knows
ProbeRange(kind) ==
  CASE kind = "BasicValidator" -> 1..10
    [] kind = "TokenValidator" -> 1..3
    [] kind = "TransferValidator" -> 1..14

\* the check functions the execution has entered; the bodies of Giver and
\* Stub1 belong to the function that calls them, and the giver step is the
\* setup of cases 2..13 and the whole check of case 14
ChecksRun ==
  { evm.trace[k].in : k \in DOMAIN evm.trace }
    \ ( {"Giver.getToken", "Stub1.transferToken"}
        \cup (IF evm.kind = "TransferValidator" /\ evm.caseId \in 2..13
              THEN {"getTokenFromGiver"} ELSE {}) )

\* the check functions the body of the constructor holds for the case
ChecksOfCase ==
  { Program(evm)[k].in : k \in DOMAIN Program(evm) }
    \ ( {"Giver.getToken", "Stub1.transferToken"}
        \cup (IF evm.kind = "TransferValidator" /\ evm.caseId \in 2..13
              THEN {"getTokenFromGiver"} ELSE {}) )

(***************************************************************************)
(* C19: for a case id in the range of its probe (BasicValidator 1-10,      *)
(* TokenValidator 1-3, TransferValidator 1-14) the constructor holds       *)
(* exactly one check, enters no other, has entered it when it succeeds,    *)
(* and never reaches assert(false); for every other case id, 0 included, it makes no call on *)
(* the target, executes assert(false) alone and never succeeds, so the     *)
(* validator never reports result true.                                    *)
(***************************************************************************)
C19_OneCheckPerCase ==
  evm.status # "idle" =>
    IF evm.caseId \in ProbeRange(evm.kind)
    THEN /\ \A k \in DOMAIN evm.trace : evm.trace[k].fn # "assert"
         /\ Cardinality(ChecksOfCase) = 1
         /\ ChecksRun \subseteq ChecksOfCase
         /\ evm.status = "success" => Cardinality(ChecksRun) = 1
    ELSE /\ TargetCalls = {}
         /\ evm.status # "success"
         /\ \A k \in DOMAIN evm.trace :
              /\ k = 1
              /\ evm.trace[k].fn = "assert"
              /\ evm.trace[k].outcome = "reverted"
         /\ Finished => Len(evm.trace) = 1
         /\ Caller.cb.called =>
              Caller.promise = [state |-> "resolved",
                                value |-> ResultObject(FALSE, Caller.cb.gas)]

C19_Witness ==
  /\ Simulating("TokenValidator", {0})
  /\ evm.status = "reverted"
  /\ Len(evm.trace) = 1
  /\ evm.trace[1].fn = "assert"
  /\ Caller.cb.called
  /\ Caller.promise.state = "resolved"
  /\ Caller.promise.value.result = FALSE

\* the steps that belong to the giver step
GiverStep(en) == en.in \in {"getTokenFromGiver", "Giver.getToken"}
AssertionSteps == {k \in DOMAIN evm.trace : ~GiverStep(evm.trace[k])}

(***************************************************************************)
(* C20: in a TransferValidator deployment for a case 2..14 the first thing *)
(* executed is the giver's getToken, every step of the assertion comes     *)
(* after the giver step and only when all of the giver step returned, and  *)
(* case 14 executes nothing but the giver step; case 1 executes no part of *)
(* the giver step and calls nothing but the target.                        *)
(***************************************************************************)
C20_GiverFirst ==
  Simulating("TransferValidator", 1..14) =>
    IF evm.caseId = 1
    THEN \A k \in DOMAIN evm.trace :
           /\ ~GiverStep(evm.trace[k])
           /\ evm.trace[k].from = "probe"
           /\ evm.trace[k].to = "target"
    ELSE /\ evm.trace # <<>> =>
              (evm.trace[1].to = "giver" /\ evm.trace[1].fn = "getToken")
         /\ \A k \in AssertionSteps : k > 4 /\ GiverHandsToken
         /\ \A k \in TargetCalls :
              ~GiverStep(evm.trace[k]) => (k > 4 /\ GiverHandsToken)
         /\ evm.caseId = 14 =>
              /\ AssertionSteps = {}
              /\ evm.status = "success" <=> GiverHandsToken

C20_Witness ==
  /\ Simulating("TransferValidator", {8})
  /\ GiverHandsToken
  /\ Len(evm.trace) >= 5
  /\ evm.trace[5].in = "checkGetApproved"
  /\ evm.trace[5].to = "target"
  /\ evm.trace[5].fn = "approve"

\* the value-carrying calls a constructor body holds
ValueSteps == {k \in DOMAIN Program(evm) : Program(evm)[k].kind = "callvalue"}

(***************************************************************************)
(* C21: the value a transfer call attaches, read as a decimal number of    *)
(* wei, is 1 followed by 24 zeros, which is 1000000 ether; a               *)
(* TransferValidator deployment starts with that value as its balance,     *)
(* every value it forwards to Giver.getToken is exactly that amount, so    *)
(* the forward is affordable, and the giver's requirement on msg.value     *)
(* never reverts.  basic and token deployments carry no value.             *)
(***************************************************************************)
C21_AttachedValue ==
  /\ \A i \in DOMAIN calls :
       DeployValue(calls[i].log[3].options) =
         IF calls[i].method = "transfer" THEN <<1>> \o Zeros(24) ELSE <<0>>
  /\ <<1>> \o Zeros(24) = ether(1000000)
  /\ (evm.status # "idle" /\ evm.kind = "TransferValidator") =>
       /\ evm.value = ether(1000000)
       /\ \A k \in ValueSteps :
            /\ Program(evm)[k].value = evm.value
            /\ GeqWei(evm.value, Program(evm)[k].value)
            /\ Returned(Void) \in Outcomes(Program(evm)[k], evm)
       /\ \A k \in DOMAIN evm.trace :
            evm.trace[k].fn = "require" =>
              /\ evm.msgValue = ether(1000000)
              /\ evm.trace[k].outcome = "returned"

C21_Witness ==
  /\ Simulating("TransferValidator", {14})
  /\ Caller.log[3].options.value = "1000000000000000000000000"
  /\ Len(evm.value) = 25
  /\ Len(evm.trace) >= 2
  /\ evm.trace[1].fn = "getToken"
  /\ evm.trace[1].outcome = "returned"
  /\ evm.trace[2].fn = "require"
  /\ evm.trace[2].outcome = "returned"

(***************************************************************************)
(* C22: a Giver.getToken entered with less than 1000000 ether reverts at   *)
(* its first statement and makes no call on the target; entered with at    *)
(* least that much it asks the target for ownerOf(tokenId) and then for    *)
(* transferFrom(that owner, msg.sender, tokenId), and it succeeds if and   *)
(* only if both calls return.                                              *)
(***************************************************************************)
C22_GiverGetToken ==
  (evm.status # "idle" /\ evm.kind = "Giver") =>
    IF ~GeqWei(evm.msgValue, <<1>> \o Zeros(24))
    THEN /\ TargetCalls = {}
         /\ evm.status # "success"
         /\ Finished =>
              (Len(evm.trace) = 1 /\ evm.trace[1].fn = "require"
                                  /\ evm.trace[1].outcome = "reverted")
    ELSE /\ Len(evm.trace) >= 1 =>
              (evm.trace[1].fn = "require" /\ evm.trace[1].outcome = "returned")
         /\ Len(evm.trace) >= 2 =>
              IsCall(evm.trace[2], "giver", "ownerOf", <<evm.tokenId>>)
         /\ Len(evm.trace) >= 3 =>
              /\ evm.trace[2].outcome = "returned"
              /\ IsCall(evm.trace[3], "giver", "transferFrom",
                        <<evm.trace[2].ret, evm.caller, evm.tokenId>>)
         /\ Len(evm.trace) <= 3
         /\ evm.status = "success" <=>
              (Len(evm.trace) = 3 /\ evm.trace[3].outcome = "returned")
         /\ evm.status = "reverted" <=>
              (evm.trace # <<>> /\ evm.trace[Len(evm.trace)].outcome = "reverted")

C22_Witness ==
  /\ evm.status = "reverted"
  /\ evm.kind = "Giver"
  /\ evm.msgValue = Nines(24)
  /\ evm.caller = Address(OwnerAddress)
  /\ Len(evm.trace) = 1
  /\ evm.trace[1].outcome = "reverted"

\* the other side of C22: a sufficient value and a target that accepts
C22_WitnessAccepted ==
  /\ evm.status = "success"
  /\ evm.kind = "Giver"
  /\ evm.msgValue = ether(1000000)
  /\ evm.caller = Address(OwnerAddress)
  /\ evm.trace[3].args[2] = Address(OwnerAddress)

ReceiptDone ==
  /\ evm.status \in {"success", "reverted"}
  /\ evm.kind = "StubCall"
  /\ evm.fn = "onERC721Received"

(***************************************************************************)
(* C23: a finished onERC721Received call returned 0x150b7a02 on Stub1 if   *)
(* and only if the data is empty, and on Stub2 if and only if the data is  *)
(* the four bytes of "ffff"; on both it reverted otherwise; on Stub3 it    *)
(* returned 0x150b7a0b, which is not 0x150b7a02, whatever the data; Stub4  *)
(* has no such function, and the call reverted.                            *)
(***************************************************************************)
C23_ReceiverStubs ==
  ReceiptDone =>
    CASE evm.stub = "Stub1" ->
           /\ evm.status = "success" <=> evm.data = <<>>
           /\ evm.status = "success" => evm.ret = Bytes("0x150b7a02")
      [] evm.stub = "Stub2" ->
           /\ evm.status = "success" <=> evm.data = <<102, 102, 102, 102>>
           /\ evm.status = "success" => evm.ret = Bytes("0x150b7a02")
      [] evm.stub = "Stub3" ->
           /\ evm.status = "success"
           /\ evm.ret = Bytes("0x150b7a0b")
           /\ evm.ret # Bytes(MAGIC_ON_ERC721_RECEIVED)
      [] evm.stub = "Stub4" ->
           /\ "onERC721Received" \notin StubFunctions("Stub4")
           /\ evm.status = "reverted"

C23_Witness ==
  /\ ReceiptDone
  /\ evm.stub = "Stub2"
  /\ evm.data = <<102, 102, 102, 102>>
  /\ evm.status = "success"
  /\ evm.ret = Bytes("0x150b7a02")

\* the probe created a Stub1 and the target accepted the approval for it
ApprovalGranted ==
  /\ Len(evm.trace) >= 6
  /\ evm.trace[5].fn = "new"
  /\ evm.trace[5].ret = Address("Stub1")
  /\ IF evm.caseId = 9
     THEN IsCall(evm.trace[6], "probe", "approve", <<Address("Stub1"), TokenArg>>)
     ELSE IsCall(evm.trace[6], "probe", "setApprovalForAll",
                 <<Address("Stub1"), Bool(TRUE)>>)
  /\ evm.trace[6].outcome = "returned"

\* the stub asked for the owner and the target accepted its transferFrom
StubTransferAccepted ==
  /\ Len(evm.trace) >= 9
  /\ IsCall(evm.trace[8], "stub", "ownerOf", <<TokenArg>>)
  /\ evm.trace[8].outcome = "returned"
  /\ IsCall(evm.trace[9], "stub", "transferFrom",
            <<evm.trace[8].ret, Address(stubAddress), TokenArg>>)
  /\ evm.trace[9].outcome = "returned"

BalanceGrewAfterApproval ==
  /\ Len(evm.trace) >= 10
  /\ IsCall(evm.trace[7], "probe", "balanceOf", <<Address(stubAddress)>>)
  /\ IsCall(evm.trace[10], "probe", "balanceOf", <<Address(stubAddress)>>)
  /\ evm.trace[7].outcome = "returned"
  /\ evm.trace[10].outcome = "returned"
  /\ evm.trace[10].ret.n = evm.trace[7].ret.n + 1

(***************************************************************************)
(* C24: a finished TransferValidator deployment for case 9 or 11 succeeded *)
(* if and only if the giver handed the token to the probe, the target      *)
(* accepted approve (case 9) or setApprovalForAll (case 11) for a new      *)
(* Stub1, then accepted that stub's transferFrom(ownerOf(tokenId),         *)
(* stubAddress, tokenId), and balanceOf(stubAddress) read after the        *)
(* transfer is the value read between approval and transfer plus 1.        *)
(***************************************************************************)
C24_ApproveAndTransfer ==
  (Finished /\ Simulating("TransferValidator", {9, 11})) =>
    /\ evm.status = "success" <=>
         /\ GiverHandsToken
         /\ ApprovalGranted
         /\ StubTransferAccepted
         /\ BalanceGrewAfterApproval
    /\ (evm.status = "success" /\ Caller.cb.called) =>
         Caller.promise = [state |-> "resolved",
                           value |-> ResultObject(TRUE, Caller.cb.gas)]

C24_Witness ==
  /\ Simulating("TransferValidator", {9})
  /\ evm.status = "success"
  /\ Len(evm.trace) = 10
  /\ evm.trace[6].fn = "approve"
  /\ evm.trace[9].from = "stub"
  /\ evm.trace[7].ret = Uint(0)
  /\ evm.trace[10].ret = Uint(1)

\* the same for the operator approval of case 11
C24_WitnessOperator ==
  /\ Simulating("TransferValidator", {11})
  /\ evm.status = "success"
  /\ evm.trace[6].fn = "setApprovalForAll"
  /\ evm.trace[10].ret = Uint(2)

\* what the older class is said to resolve with for a callback's error
OlderOutcome(err) ==
  IF Falsy(err) THEN True
  ELSE IF Includes(String(err), AlwaysFailingTransaction) THEN False
  ELSE err

(***************************************************************************)
(* C25: in the older ERC721Validator, once the estimateGas callback of a   *)
(* basic, token or transfer call has run, the promise is resolved: with    *)
(* true if there was no error, with false if the error's string contains   *)
(* 'always failing transaction', and with the error itself otherwise, an   *)
(* error that contains only 'execution reverted' included.                 *)
(***************************************************************************)
C25_OlderResolves ==
  \A i \in DOMAIN calls :
    calls[i].cb.called =>
      calls[i].promise = [state |-> "resolved",
                          value |-> OlderOutcome(calls[i].cb.err)]

\* C25 for the calls that passed every argument
C25_OlderResolvesArgsPresent ==
  \A i \in DOMAIN calls :
    (/\ calls[i].cb.called
     /\ ~Falsy(calls[i].params.contract)
     /\ calls[i].method \in {"older.token", "older.transfer"} =>
          ~Falsy(calls[i].params.tokenId)
     /\ calls[i].method = "older.transfer" => ~Falsy(calls[i].params.giver)) =>
      calls[i].promise = [state |-> "resolved",
                          value |-> OlderOutcome(calls[i].cb.err)]

Settled(c) == c.promise.state # "pending"

\* a step leaves the promise of every settled call that stays as it is
SettledStays ==
  \A i \in DOMAIN calls :
    (Settled(calls[i]) /\ Len(calls') = Len(calls)) =>
      calls'[i].promise = calls[i].promise

(***************************************************************************)
(* C26: with a collaborator that eventually invokes the estimateGas        *)
(* callback or throws/rejects, a call of basic, token or transfer that has *)
(* been made eventually holds a settled promise, resolved or rejected; and *)
(* no step, be it of the callback or of the catch block, changes a promise *)
(* that is settled.                                                        *)
(***************************************************************************)
C26_SettlesOnce ==
  /\ (calls # <<>>) ~> (calls # <<>> /\ Settled(calls[1]))
  /\ [][SettledStays]_vars

C26_Witness ==
  \E i \in DOMAIN calls :
    /\ FirstMissing(calls[i]) = MsgTokenId
    /\ calls[i].cb.called
    /\ Falsy(calls[i].cb.err)
    /\ calls[i].awaited.kind = "fulfilled"
    /\ calls[i].promise = [state |-> "rejected", value |-> Str(MsgTokenId)]

\* the tokenIds that count as not provided: none, numeric 0, empty string
MissingTokenIds == {Undefined, Num(0), Str("")}

(***************************************************************************)
(* C27: a token or transfer call that has its contract address fails with  *)
(* 'You must provide tokenId as input' exactly when its tokenId is absent, *)
(* numeric 0 or the empty string; with any other tokenId, 1 or the string  *)
(* '0' for example, the tokenId check rejects nothing, and the tokenId is  *)
(* the third constructor argument of the deployment exactly as supplied.   *)
(***************************************************************************)
C27_FalsyTokenId ==
  \A i \in DOMAIN calls :
    (calls[i].method \in {"token", "transfer"}
       /\ calls[i].params.contract = Str("0xf176")) =>
      LET c == calls[i] IN
      /\ c.promise = [state |-> "rejected", value |-> Str(MsgTokenId)]
           <=> c.params.tokenId \in MissingTokenIds
      /\ (c.params.tokenId \notin MissingTokenIds /\ ~c.cb.called
            /\ c.pc = "awaiting"
            /\ (c.method = "transfer" => c.params.giver = Str("0xa013"))) =>
           c.promise = Pending
      /\ c.params.tokenId \notin MissingTokenIds =>
           c.log[2].arguments[3] = c.params.tokenId

C27_Witness ==
  \E i \in DOMAIN calls :
    /\ calls[i].method = "token"
    /\ calls[i].params.tokenId = Str("0")
    /\ calls[i].log[2].arguments[3] = Str("0")
    /\ calls[i].cb.called
    /\ calls[i].promise.state = "resolved"
    /\ calls[i].promise.value.result = TRUE

\* the other side of C27: the empty string counts as missing
C27_WitnessEmptyString ==
  \E i \in DOMAIN calls :
    /\ calls[i].method = "transfer"
    /\ calls[i].params.tokenId = Str("")
    /\ calls[i].promise = [state |-> "rejected", value |-> Str(MsgTokenId)]

(***************************************************************************)
(* C28: no step of basic, token or transfer, of a callback or of a catch   *)
(* block changes the web3 handle or millionCoinAddress of the instance:    *)
(* they stay the client and the address given to the constructor, and the  *)
(* client every call has used is that handle.                              *)
(***************************************************************************)
C28_InstanceUnchanged ==
  /\ [][web3' = web3 /\ millionCoinAddress' = millionCoinAddress]_vars
  /\ [](\A i \in DOMAIN calls : calls[i].log[1].on = web3)
  /\ [](web3 \in Clients /\ millionCoinAddress \in Addresses)

C28_Witness ==
  \E i \in DOMAIN calls :
    /\ web3 = "web3B"
    /\ millionCoinAddress = Str("0xa013")
    /\ calls[i].method = "transfer"
    /\ calls[i].params.giver = Str("0xa013")
    /\ calls[i].log[1].on = "web3B"
    /\ calls[i].pc = "done"
    /\ calls[i].promise.state = "rejected"
    /\ calls[i].awaited.kind = "rejected"

\* a step of the legacy contract completes a receipt from c with true support
CompletesReceipt(c) ==
  /\ evm.frames # <<>>
  /\ Top(evm).fn = "onERC721Received"
  /\ Top(evm).sender = c
  /\ Top(evm).pending = [to |-> c, call |-> "supportsInterface", id |-> 0]
  /\ evm'.last = [kind |-> "return", ret |-> Bytes("0x150b7a02")]
  /\ evm'.contractToId[c] = Top(evm).tokenId
  /\ Len(evm'.frames) = Len(evm.frames) - 1

\* a step of the legacy contract is a revert that restores the mapping
UndoesCall ==
  /\ evm.frames # <<>>
  /\ evm'.last.kind = "revert"
  /\ evm'.contractToId = Top(evm).snap.contractToId

====
